---- MODULE Spec2Model ----
(***************************************************************************)
(* Model of the NISAR HDF5 GDAL driver (NisarDataset / NisarRasterBand).   *)
(*                                                                         *)
(* Three specifications share this module:                                 *)
(*   SpecTile  NisarRasterBand::IReadBlock on a band of an open raster     *)
(*   SpecOpen  NisarDataset::Open (name parsing, classification,           *)
(*             discovery, raster construction), GetGeoTransform, GetGCPs   *)
(*   SpecMask  the validity-mask decoding of NisarHDF5MaskBand             *)
(*                                                                         *)
(* Strings are modelled as sequences of tokens.  A delimiter character     *)
(* (":", "/", ".", the double quote) is a token of its own; every other    *)
(* token stands for a maximal run of non-delimiter characters.             *)
(***************************************************************************)
EXTENDS Integers, Sequences, FiniteSets, TLC

(***************************************************************************)
(* Bounds of the model.                                                    *)
(***************************************************************************)
MaxRaster == 2      \* raster width / height range over 1..MaxRaster
MaxBlock == 2       \* block (chunk) width / height range over 1..MaxBlock
MaxBands == 2       \* size of the leading dimension of a 3-D array
MaxBlockOff == 2    \* block column / row offsets range over 0..MaxBlockOff
MaxTypeSize == 2    \* bytes per sample range over 1..MaxTypeSize

VARIABLES
    \* ---- the raster and its bands (NisarDataset, NisarRasterBand) ----
    nRasterXSize,   \* raster width  (last dimension of the array)
    nRasterYSize,   \* raster height (last but one dimension)
    nBands,         \* number of bands of the dataset
    nBlockXSize,    \* block width
    nBlockYSize,    \* block height
    leadDims,       \* sizes of the dimensions before [Y, X]: <<>> or <<B>>
    nDataTypeSize,  \* GDALGetDataTypeSizeBytes(eDataType)
    hH5Type,        \* band number -> TRUE iff the band holds a valid type handle
    \* ---- tile reading (NisarRasterBand::IReadBlock) ----
    call,           \* inputs of the last IReadBlock call
    ret,            \* its return value: "none", "CE_None", "CE_Failure"
    pImage,         \* the caller's buffer after the call, byte by byte
    h5log,          \* store calls issued by the last IReadBlock call
    \* ---- the store and the dataset (NisarDataset) ----
    file,           \* content of the HDF5 file FileName
    poDS,           \* what the last Open returned: "none" before the first
                    \* Open, "NULL", "container" or "raster"
    request,        \* inputs of the last Open
    pszFilename,    \* file name the dataset holds
    hDataset,       \* path of the array the dataset holds, <<>> for -1
    m_sInst,        \* instrument
    m_sProductType, \* product type
    m_bIsLevel1,    \* level flag: swath
    m_bIsLevel2,    \* level flag: gridded
    papszSubDatasets,   \* the catalog, in insertion order
    discoveryRuns,  \* number of H5Ovisit walks of the last Open
    gcpList,        \* GCPs attached with SetGCPs
    gcpSRS,         \* their coordinate reference (EPSG code), 0 if none
    m_bGotGeoTransform, \* transform cache flag
    m_adfGeoTransform,  \* transform cache
    gtRet,          \* outcome of the last GetGeoTransform since Open
    oGT,            \* the transform it handed out
    gcpRet,         \* outcome of the last GetGCPs since Open
    gtLog,          \* store calls issued by the last GetGeoTransform call
    gtPrev,         \* outcome and values of the GetGeoTransform call made
                    \* directly before the last one, if there was one
    lastOp,         \* the last operation on the dataset
    \* ---- mask decoding (NisarHDF5MaskBand) ----
    m_eType,        \* decode rule of the mask band: "GCOV" or "GUNW"
    rawByte,        \* raw validity code last decoded, -1 before the first
    maskByte,       \* the byte it decoded to, -1 before the first
    \* ---- threads calling the cached getters of one dataset ----
    thread,         \* per thread: the getter it is in, its position, its
                    \* local transform and the index of its memcpy
    returned,       \* per thread: what its last finished GetGeoTransform
                    \* returned
    mutex,          \* per getter: the thread that holds the mutex of its
                    \* cache, 0 if free
    cacheFlag,      \* m_bGotSRS, m_bGotGlobalMetadata, m_bGotMetadata and
                    \* the band's m_bMetadataRead
    gtFirst         \* the transform cache as the first finished store left
                    \* it, <<>> before

bandVars == <<nRasterXSize, nRasterYSize, nBands, nBlockXSize, nBlockYSize,
              leadDims, nDataTypeSize, hH5Type>>
tileVars == <<call, ret, pImage, h5log>>
dsVars == <<file, poDS, request, pszFilename, hDataset, m_sInst,
            m_sProductType, m_bIsLevel1, m_bIsLevel2, papszSubDatasets,
            discoveryRuns, gcpList, gcpSRS, m_bGotGeoTransform,
            m_adfGeoTransform, gtRet, oGT, gcpRet>>

gtVars == <<gtLog, gtPrev, lastOp>>
maskVars == <<m_eType, rawByte, maskByte>>
cacheVars == <<thread, returned, mutex, cacheFlag, gtFirst>>

vars == <<bandVars, tileVars, dsVars, gtVars, maskVars, cacheVars>>

(***************************************************************************)
(* Generic helpers.                                                        *)
(***************************************************************************)
Min(a, b) == IF a < b THEN a ELSE b

RECURSIVE Product(_)
Product(s) == IF s = <<>> THEN 1 ELSE Head(s) * Product(Tail(s))

(***************************************************************************)
(* Byte values.  The content of the store is tagged so that every stored   *)
(* byte is distinct from every other one, from 0 and from the 0xAA fill.   *)
(***************************************************************************)
ZeroByte == 0
PatternAA == 170
DirtyByte == -1     \* whatever the caller's buffer held before the call

\* byte k of the stored sample (lead, y, x); lead is the flattened index over
\* the leading dimensions
StoredByte(lead, y, x, k) ==
    1000 + k + nDataTypeSize * (x + nRasterXSize * (y + nRasterYSize * lead))

(***************************************************************************)
(* The HDF5 store as IReadBlock uses it.                                   *)
(***************************************************************************)
\* the rank of the array the raster was opened on
FileRank == Len(leadDims) + 2

\* the extent of the array: leading dimensions, then Y, then X
FileDims == leadDims \o <<nRasterYSize, nRasterXSize>>

\* number of elements of a hyperslab selection
NumSelected(count) == Product(count)

\* H5Sselect_hyperslab accepts a block that lies inside the extent
SelectionInExtent(start, count) ==
    \A i \in 1..Len(start) : start[i] + count[i] <= FileDims[i]

\* The k-th selected element (row-major over the selection) as the triple
\* <<lead, y, x>>, for a selection whose leading start indices are all 0.
SelectedElement(start, count, k) ==
    LET w == count[Len(count)]
        h == count[Len(count) - 1]
        plane == w * h
    IN  <<k \div plane,
          start[Len(start) - 1] + ((k % plane) \div w),
          start[Len(start)] + (k % w)>>

\* H5Dread(hDataset, type, memspace [mh, mw], filespace selection, pImage):
\* fails when the two selections differ in their number of elements,
\* otherwise copies the selected elements, in row-major order of the file
\* selection, to consecutive elements at the start of the buffer.
H5DreadOk(start, count, mh, mw, injected) ==
    /\ injected # "H5Dread"
    /\ NumSelected(count) = mh * mw

H5DreadInto(buf, start, count, mh, mw) ==
    [i \in DOMAIN buf |->
        IF i < mh * mw * nDataTypeSize
        THEN LET e == SelectedElement(start, count, i \div nDataTypeSize)
             IN  StoredByte(e[1], e[2], e[3], i % nDataTypeSize)
        ELSE buf[i]]

\* memset(p + from, value, n)
Memset(buf, from, value, n) ==
    [i \in DOMAIN buf |-> IF i >= from /\ i < from + n THEN value ELSE buf[i]]

(***************************************************************************)
(* NisarRasterBand::IReadBlock                                             *)
(***************************************************************************)
\* the store calls whose failure the environment can inject
StoreFailures == {"none", "H5Dget_space", "H5Sget_simple_extent_ndims",
                  "H5Sget_simple_extent_dims", "H5Sselect_hyperslab",
                  "H5Screate_simple", "H5Dread"}

nFullBlockBytes == nBlockXSize * nBlockYSize * nDataTypeSize

FreshBuffer == [i \in 0..(nFullBlockBytes - 1) |-> DirtyByte]

start_offset_x(nBlockXOff) == nBlockXOff * nBlockXSize
start_offset_y(nBlockYOff) == nBlockYOff * nBlockYSize

BlockOutside(nBlockXOff, nBlockYOff) ==
    \/ start_offset_x(nBlockXOff) >= nRasterXSize
    \/ start_offset_y(nBlockYOff) >= nRasterYSize
    \/ nDataTypeSize = 0

\* the width of the read without the clamp to the raster edge
nActualBlockXSize_NoClamp(nBlockXOff) == nBlockXSize

nActualBlockXSize(nBlockXOff) ==
    Min(nBlockXSize, nRasterXSize - start_offset_x(nBlockXOff))
nActualBlockYSize(nBlockYOff) ==
    Min(nBlockYSize, nRasterYSize - start_offset_y(nBlockYOff))

\* start[] of the hyperslab: 0 in every leading dimension
HyperslabStart(nBand, nBlockXOff, nBlockYOff) ==
    [i \in 1..FileRank |->
        IF i = FileRank THEN start_offset_x(nBlockXOff)
        ELSE IF i = FileRank - 1 THEN start_offset_y(nBlockYOff)
        ELSE 0]

\* count[] of the hyperslab: the whole extent of every leading dimension
HyperslabCount(nBand, nBlockXOff, nBlockYOff) ==
    [i \in 1..FileRank |->
        IF i = FileRank THEN nActualBlockXSize(nBlockXOff)
        ELSE IF i = FileRank - 1 THEN nActualBlockYSize(nBlockYOff)
        ELSE FileDims[i]]

\* pad the columns to the right of the data, line by line
RECURSIVE PadRight(_, _, _, _)
PadRight(buf, iLine, ax, ay) ==
    IF iLine >= ay THEN buf
    ELSE PadRight(Memset(buf, (iLine * nBlockXSize + ax) * nDataTypeSize,
                         ZeroByte, (nBlockXSize - ax) * nDataTypeSize),
                  iLine + 1, ax, ay)

\* pad the rows below the data
PadBelow(buf, ay) ==
    Memset(buf, ay * nBlockXSize * nDataTypeSize, ZeroByte,
           (nBlockYSize - ay) * nBlockXSize * nDataTypeSize)

PartialBlockPadding(buf, ax, ay) ==
    LET b1 == IF ax < nBlockXSize THEN PadRight(buf, 0, ax, ay) ELSE buf
    IN  IF ay < nBlockYSize THEN PadBelow(b1, ay) ELSE b1

\* lines 360-368: the block lies outside the raster: zero the buffer, succeed
OutsideBlockResult_NoFill(buf) ==
    [ret |-> "CE_None", buf |-> buf, log |-> <<>>]
OutsideBlockResult(buf) ==
    [ret |-> "CE_None", buf |-> Memset(buf, 0, ZeroByte, nFullBlockBytes),
     log |-> <<>>]

\* goto error_cleanup: the buffer is left as it is, the call fails
ErrorCleanup_ZeroFill(buf, log) ==
    [ret |-> "CE_None", buf |-> Memset(buf, 0, ZeroByte, nFullBlockBytes),
     log |-> log]
ErrorCleanup(buf, log) ==
    [ret |-> "CE_Failure", buf |-> buf, log |-> log]

\* The outcome of one call: return value, buffer, store calls issued.
IReadBlockResult(nBand, nBlockXOff, nBlockYOff, fail) ==
    LET ax == nActualBlockXSize(nBlockXOff)
        ay == nActualBlockYSize(nBlockYOff)
        st == HyperslabStart(nBand, nBlockXOff, nBlockYOff)
        ct == HyperslabCount(nBand, nBlockXOff, nBlockYOff)
        filled == Memset(FreshBuffer, 0, PatternAA, nFullBlockBytes)
        getSpace == <<[op |-> "H5Dget_space"]>>
        getDims == IF FileRank > 2
                   THEN <<[op |-> "H5Sget_simple_extent_dims"]>> ELSE <<>>
        select == <<[op |-> "H5Sselect_hyperslab", start |-> st, count |-> ct]>>
        memsp == <<[op |-> "H5Screate_simple", dims |-> <<ay, ax>>]>>
        rd == <<[op |-> "H5Dread"]>>
    IN  IF ~hH5Type[nBand]
        THEN [ret |-> "CE_Failure", buf |-> FreshBuffer, log |-> <<>>]
        ELSE IF BlockOutside(nBlockXOff, nBlockYOff)
        THEN OutsideBlockResult(FreshBuffer)
        ELSE IF ax <= 0 \/ ay <= 0
        THEN OutsideBlockResult(FreshBuffer)
        ELSE IF fail = "H5Dget_space"
        THEN ErrorCleanup(FreshBuffer, getSpace)
        ELSE IF fail = "H5Sget_simple_extent_ndims"
        THEN ErrorCleanup(FreshBuffer, getSpace)
        ELSE IF FileRank > 2 /\ fail = "H5Sget_simple_extent_dims"
        THEN ErrorCleanup(FreshBuffer, getSpace \o getDims)
        ELSE IF fail = "H5Sselect_hyperslab" \/ ~SelectionInExtent(st, ct)
        THEN ErrorCleanup(FreshBuffer, getSpace \o getDims \o select)
        ELSE IF fail = "H5Screate_simple"
        THEN ErrorCleanup(FreshBuffer,
                          getSpace \o getDims \o select \o memsp)
        ELSE IF ~H5DreadOk(st, ct, ay, ax, fail)
        THEN ErrorCleanup(filled,
                          getSpace \o getDims \o select \o memsp \o rd)
        ELSE [ret |-> "CE_None",
              buf |-> PartialBlockPadding(
                          H5DreadInto(filled, st, ct, ay, ax), ax, ay),
              log |-> getSpace \o getDims \o select \o memsp \o rd]

\* The block cache hands every call a newly allocated buffer, so a call is
\* taken on a buffer no earlier call has written (FlushBlock gives it back).
IReadBlock(nBand, nBlockXOff, nBlockYOff, fail) ==
    LET r == IReadBlockResult(nBand, nBlockXOff, nBlockYOff, fail)
    IN  /\ ret = "none"
        /\ call' = [nBand |-> nBand, nBlockXOff |-> nBlockXOff,
                    nBlockYOff |-> nBlockYOff, fail |-> fail]
        /\ ret' = r.ret
        /\ pImage' = r.buf
        /\ h5log' = r.log
        /\ UNCHANGED <<bandVars, dsVars, gtVars, maskVars, cacheVars>>

\* NisarDataset::Open creates one band per element of the leading dimension
\* of a 3-D array and one band for an array of any other rank
nBandsToCreate(lead) == IF Len(lead) = 1 THEN lead[1] ELSE 1

(***************************************************************************)
(* Strings as token sequences.                                             *)
(***************************************************************************)
Quote == "\""

StartsWith(s, p) == Len(s) >= Len(p) /\ SubSeq(s, 1, Len(p)) = p

\* s.find(p) != npos
Contains(s, p) ==
    \E i \in 1..(Len(s) + 1 - Len(p)) : SubSeq(s, i, i + Len(p) - 1) = p

\* index of the last occurrence of token c in s, 0 if there is none
\* (strrchr, std::string::find_last_of)
LastIndexOf(s, c) ==
    LET I == {i \in 1..Len(s) : s[i] = c}
    IN  IF I = {} THEN 0 ELSE CHOOSE i \in I : \A j \in I : j <= i

\* CPLGetExtension: what follows the last "." of the last path component
NisarGetExtension(pszName) ==
    LET iFileStart == LastIndexOf(pszName, "/") + 1
        iDot == LastIndexOf(pszName, ".")
    IN  IF iDot > iFileStart
        THEN SubSeq(pszName, iDot + 1, Len(pszName))
        ELSE <<>>

\* the driver prefix "NISAR:"
pszPrefix == <<"NISAR", ":">>

\* the name of the one HDF5 file of the model, and of a file that is absent
FileName == <<"a", ".", "h5">>
MissingFileName == <<"b", ".", "h5">>

(***************************************************************************)
(* NisarDataset::Open, lines 2237-2320: split the connection string into   *)
(* the file name and the optional HDF5 path.                               *)
(***************************************************************************)
ParseOpenName(pszFullInput) ==
    LET pszDataIdentifier ==
            IF StartsWith(pszFullInput, pszPrefix)
            THEN SubSeq(pszFullInput, Len(pszPrefix) + 1, Len(pszFullInput))
            ELSE pszFullInput
        iLastColon == LastIndexOf(pszDataIdentifier, ":")
        bScheme == /\ iLastColon # 0
                   /\ Len(pszDataIdentifier) >= iLastColon + 2
                   /\ pszDataIdentifier[iLastColon + 1] = "/"
                   /\ pszDataIdentifier[iLastColon + 2] = "/"
        pszActualFilename ==
            IF iLastColon # 0 /\ ~bScheme
            THEN SubSeq(pszDataIdentifier, 1, iLastColon - 1)
            ELSE pszDataIdentifier
    IN  IF pszDataIdentifier = <<>>
        THEN [ok |-> FALSE, filename |-> <<>>, hasPath |-> FALSE, path |-> <<>>]
        ELSE [ok |-> /\ pszActualFilename # <<>>
                     /\ NisarGetExtension(pszActualFilename) = <<"h5">>,
              filename |-> pszActualFilename,
              hasPath |-> iLastColon # 0 /\ ~bScheme,
              path |-> IF iLastColon # 0 /\ ~bScheme
                       THEN SubSeq(pszDataIdentifier, iLastColon + 1,
                                   Len(pszDataIdentifier))
                       ELSE <<>>]

\* lines 3121-3127: the SUBDATASET_n_NAME of a discovered array
SubdatasetName(sFilename, hdf5_path) ==
    pszPrefix \o <<Quote>> \o sFilename \o <<Quote, ":">> \o hdf5_path


(***************************************************************************)
(* Properties of IReadBlock (checked under SpecTile).                      *)
(***************************************************************************)
Called == ret # "none"
TileOriginInside ==
    /\ start_offset_x(call.nBlockXOff) < nRasterXSize
    /\ start_offset_y(call.nBlockYOff) < nRasterYSize
TileW == nActualBlockXSize(call.nBlockXOff)
TileH == nActualBlockYSize(call.nBlockYOff)
TilePartial == TileW < nBlockXSize \/ TileH < nBlockYSize
AllZero == \A i \in DOMAIN pImage : pImage[i] = ZeroByte
Issued(op) == \E i \in 1..Len(h5log) : h5log[i].op = op

\* the byte the contract puts at buffer index i of a tile of band call.nBand:
\* the stored sample (offsetY + r, offsetX + c) at row r, column c of a
\* buffer with row stride nBlockXSize, zero outside the in-bounds part
ExpectedByte(i) ==
    LET e == i \div nDataTypeSize
        r == e \div nBlockXSize
        c == e % nBlockXSize
    IN  IF r < TileH /\ c < TileW
        THEN StoredByte(call.nBand - 1,
                        start_offset_y(call.nBlockYOff) + r,
                        start_offset_x(call.nBlockXOff) + c,
                        i % nDataTypeSize)
        ELSE ZeroByte

\* C1: after a successful IReadBlock of a tile that lies partly inside the
\* raster, the buffer read with row stride nBlockXSize holds the stored
\* sample (offsetY + r, offsetX + c) at row r, column c of the in-bounds
\* part and zero in every other byte.
C1_PartialTilePadded ==
    (Called /\ ret = "CE_None" /\ TileOriginInside /\ TilePartial)
        => \A i \in DOMAIN pImage : pImage[i] = ExpectedByte(i)

\* C2 as stated: every request whose origin lies at or beyond the raster
\* extent returns success with an all-zero buffer and no store read.
C2_Original_OutsideAlwaysSucceeds ==
    (Called /\ ~TileOriginInside)
        => (ret = "CE_None" /\ AllZero /\ h5log = <<>>)

\* C2 (amended): on a band whose type handle is valid, a request whose
\* origin lies at or beyond the raster extent returns success, zeroes the
\* whole buffer and issues no store call; on a band whose type handle is
\* invalid the call fails before the buffer is touched.
C2_OutsideTileZeroFilled ==
    (Called /\ ~TileOriginInside)
        => IF hH5Type[call.nBand]
           THEN ret = "CE_None" /\ AllZero /\ h5log = <<>>
                /\ DOMAIN pImage =
                     0..(nBlockXSize * nBlockYSize * nDataTypeSize - 1)
           ELSE ret = "CE_Failure" /\ pImage = FreshBuffer /\ h5log = <<>>

C2_Witness ==
    /\ Called /\ ~TileOriginInside /\ hH5Type[call.nBand]
    /\ ret = "CE_None" /\ AllZero /\ nFullBlockBytes > 1

\* C3: a tile read on band b of a [band, Y, X] array selects exactly the
\* slice b of the leading dimension (count 1), so that the selection holds
\* actualWidth x actualHeight elements; on a 2-D array the selection has
\* no leading dimension.
C3_SingleBandSlice ==
    \A i \in 1..Len(h5log) :
        h5log[i].op = "H5Sselect_hyperslab" =>
            IF Len(leadDims) = 1
            THEN /\ Len(h5log[i].count) = 3
                 /\ h5log[i].start[1] = call.nBand - 1
                 /\ h5log[i].count[1] = 1
                 /\ NumSelected(h5log[i].count) = TileW * TileH
            ELSE Len(h5log[i].count) = 2

\* the store read of the last call failed at some step
StoreReadFailed ==
    \/ call.fail \in {"H5Dget_space", "H5Sget_simple_extent_ndims",
                      "H5Sselect_hyperslab", "H5Screate_simple", "H5Dread"}
    \/ call.fail = "H5Sget_simple_extent_dims" /\ FileRank > 2
    \/ NumSelected(HyperslabCount(call.nBand, call.nBlockXOff,
                                  call.nBlockYOff)) # TileW * TileH

\* C4: when the store read of an in-bounds tile fails (dataspace query,
\* hyperslab selection or the typed read), IReadBlock returns failure and
\* the buffer is not zero-filled; a successful return of an in-bounds tile
\* means the typed read was issued and delivered stored samples.
C4_ReadFailureIsHardFailure ==
    (Called /\ TileOriginInside) =>
        /\ StoreReadFailed => (ret = "CE_Failure" /\ ~AllZero)
        /\ ret = "CE_None" =>
              (~StoreReadFailed /\ Issued("H5Dread")
               /\ pImage[0] = ExpectedByte(0))

C4_Witness ==
    /\ Called /\ TileOriginInside /\ hH5Type[call.nBand]
    /\ call.fail = "H5Dread" /\ ret = "CE_Failure" /\ Issued("H5Dread")

(***************************************************************************)
(* The store: one HDF5 file named FileName.  An object is a record          *)
(*   path  absolute path, as tokens                                        *)
(*   kind  "group" or "dataset"                                            *)
(*   dims  extent of a dataset (<<>> for a scalar or a group)              *)
(*   dtype "Byte", "Float32", "CFloat32" or "String"                       *)
(*   chunk chunk extent of a chunked dataset, <<>> if contiguous           *)
(*   gt    the "GeoTransform" attribute, [present, type, values]           *)
(* and H5Ovisit meets the objects in the order of the sequence.            *)
(***************************************************************************)
MaxCoord == 3       \* longest coordinate vector / geolocation axis

\* numbers of a transform are kept in halves: 2 stands for 1.0
Half == 2

NoAttr == [present |-> FALSE, type |-> "none", values |-> <<>>]
OkAttr == [present |-> TRUE, type |-> "NATIVE_DOUBLE",
           values |-> <<100 * Half, 10 * Half, 0, 200 * Half, 0, -10 * Half>>]
ShortAttr == [present |-> TRUE, type |-> "NATIVE_DOUBLE",
              values |-> <<100 * Half, 10 * Half, 0>>]
FloatAttr == [present |-> TRUE, type |-> "NATIVE_FLOAT",
              values |-> <<100 * Half, 10 * Half, 0, 200 * Half, 0, -10 * Half>>]

Group(path) ==
    [path |-> path, kind |-> "group", dims |-> <<>>, dtype |-> "none",
     chunk |-> <<>>, gt |-> NoAttr]

Array(path, dims, dtype, chunk, gt) ==
    [path |-> path, kind |-> "dataset", dims |-> dims, dtype |-> dtype,
     chunk |-> chunk, gt |-> gt]

\* the NISAR layout: /science/<INST>/<type>/{grids|swaths}/frequencyA/<POL>
LayerOf(tree) == IF tree = "GCOV" THEN "grids" ELSE "swaths"
PolOf(tree) == IF tree = "GCOV" THEN "HHHH" ELSE "HH"
ListNameOf(tree) ==
    IF tree = "GCOV" THEN "listOfCovarianceTerms" ELSE "listOfPolarizations"

InstRoot(f) == <<"/", "science", "/", f.inst>>
IdentPath(f) == InstRoot(f) \o <<"/", "identification">>
ProductRoot(f) == InstRoot(f) \o <<"/", f.tree>>
LayerGroup(f) == ProductRoot(f) \o <<"/", LayerOf(f.tree)>>
FrequencyGroup(f) ==
    ProductRoot(f) \o <<"/", LayerOf(f.tree), "/", "frequency", "A">>
MainPath(f) == FrequencyGroup(f) \o <<"/", PolOf(f.tree)>>
GeolocationGridPath(f) ==
    ProductRoot(f) \o <<"/", "metadata", "/", "geolocationGrid">>
OutsidePath == <<"/", "other", "/", "cube">>

\* the objects of a file laid out from its description
Layout(f) ==
    <<Group(<<"/", "science">>), Group(InstRoot(f))>>
    \o (IF f.ident.present
        THEN <<Group(IdentPath(f))>>
             \o (IF f.ident.productType # ""
                 THEN <<Array(IdentPath(f) \o <<"/", "productType">>, <<>>,
                              "String", <<>>, NoAttr)>>
                 ELSE <<>>)
             \o (IF f.ident.productLevel # ""
                 THEN <<Array(IdentPath(f) \o <<"/", "productLevel">>, <<>>,
                              "String", <<>>, NoAttr)>>
                 ELSE <<>>)
        ELSE <<>>)
    \o <<Group(ProductRoot(f))>>
    \o (IF f.upCoords.x # <<>> \/ f.upCoords.y # <<>>
        THEN <<Group(LayerGroup(f))>>
        ELSE <<>>)
    \o (IF f.upCoords.x # <<>>
        THEN <<Array(LayerGroup(f) \o <<"/", "xCoordinates">>,
                     <<Len(f.upCoords.x)>>, "Float32", <<>>, NoAttr)>>
        ELSE <<>>)
    \o (IF f.upCoords.y # <<>>
        THEN <<Array(LayerGroup(f) \o <<"/", "yCoordinates">>,
                     <<Len(f.upCoords.y)>>, "Float32", <<>>, NoAttr)>>
        ELSE <<>>)
    \o <<Group(FrequencyGroup(f)),
         Array(FrequencyGroup(f) \o <<"/", ListNameOf(f.tree)>>, <<1>>,
               "String", <<>>, NoAttr)>>
    \o (IF f.mainDims # <<>>
        THEN <<Array(MainPath(f), f.mainDims, f.mainType, f.mainChunk,
                     f.mainGT)>>
        ELSE <<>>)
    \o (IF f.coords.x # <<>>
        THEN <<Array(FrequencyGroup(f) \o <<"/", "xCoordinates">>,
                     <<Len(f.coords.x)>>, "Float32", <<>>, NoAttr)>>
        ELSE <<>>)
    \o (IF f.coords.y # <<>>
        THEN <<Array(FrequencyGroup(f) \o <<"/", "yCoordinates">>,
                     <<Len(f.coords.y)>>, "Float32", <<>>, NoAttr)>>
        ELSE <<>>)
    \o (IF f.geoloc.group
        THEN <<Group(GeolocationGridPath(f))>>
             \o (IF f.geoloc.cube # <<>>
                 THEN <<Array(GeolocationGridPath(f) \o <<"/", "coordinateX">>,
                              f.geoloc.cube, "Float32", <<>>, NoAttr),
                        Array(GeolocationGridPath(f) \o <<"/", "coordinateY">>,
                              f.geoloc.cube, "Float32", <<>>, NoAttr)>>
                 ELSE <<>>)
             \o (IF f.geoloc.nRange > 0
                 THEN <<Array(GeolocationGridPath(f) \o <<"/", "slantRange">>,
                              <<f.geoloc.nRange>>, "Float32", <<>>, NoAttr)>>
                 ELSE <<>>)
             \o (IF f.geoloc.nAzimuth > 0
                 THEN <<Array(GeolocationGridPath(f)
                                  \o <<"/", "zeroDopplerTime">>,
                              <<f.geoloc.nAzimuth>>, "Float32", <<>>, NoAttr)>>
                 ELSE <<>>)
        ELSE <<>>)
    \o (IF f.outside
        THEN <<Group(<<"/", "other">>),
               Array(OutsidePath, <<2, 2, 2>>, "Float32", <<>>, NoAttr)>>
        ELSE <<>>)

\* the objects of a file, in visit order
Objs(f) == f.objs

\* HDF5 resolves a path without a leading "/" from the root group
AbsPath(path) == IF path # <<>> /\ Head(path) = "/" THEN path ELSE <<"/">> \o path

ObjIndex(f, path) ==
    {i \in 1..Len(Objs(f)) : Objs(f)[i].path = AbsPath(path)}

\* H5Lexists(hHDF5, path) > 0
H5LexistsOk(f, path) == path # <<>> /\ ObjIndex(f, path) # {}

ObjAt(f, path) == Objs(f)[CHOOSE i \in ObjIndex(f, path) : TRUE]

\* H5Dopen2(hHDF5, path) >= 0
H5Dopen2Ok(f, path) ==
    H5LexistsOk(f, path) /\ ObjAt(f, path).kind = "dataset"

\* H5Gopen2(hHDF5, path) >= 0
H5Gopen2Ok(f, path) ==
    H5LexistsOk(f, path) /\ ObjAt(f, path).kind = "group"

(***************************************************************************)
(* Inputs of Open: the open options and an injected store failure.         *)
(* A failure is [op, obj]: the store call that fails and, for the calls    *)
(* made while visiting, the index of the visited object.                   *)
(***************************************************************************)
NoOptions == [inst |-> "", freq |-> "", pol |-> ""]
NoFault == [op |-> "none", obj |-> 0]

\* toupper / EQUAL on the tokens the options use
ToUpper(t) ==
    CASE t = "lsar" -> "LSAR"
      [] t = "a" -> "A"
      [] t = "hh" -> "HH"
      [] OTHER -> t

EQUAL(a, b) == ToUpper(a) = ToUpper(b)

(***************************************************************************)
(* NisarDataset::Identify                                                  *)
(***************************************************************************)
Identify(f, pszName, fault) ==
    IF StartsWith(pszName, pszPrefix)
    THEN Contains(pszName, <<".", "h5">>)
    ELSE /\ NisarGetExtension(pszName) = <<"h5">>
         /\ pszName = FileName                  \* H5Fis_hdf5
         /\ fault.op # "H5Fopen"
         /\ \/ H5LexistsOk(f, <<"/", "science", "/", "LSAR", "/",
                                "identification">>)
            \/ H5LexistsOk(f, <<"/", "science", "/", "SSAR", "/",
                                "identification">>)

(***************************************************************************)
(* NisarDataset::ReadIdentificationMetadata                                *)
(***************************************************************************)
\* ReadHDF5StringDataset(hIdentGroup, name): "" when it cannot be read
ReadIdentString(f, sIdentPath, name, value) ==
    IF H5Dopen2Ok(f, sIdentPath \o <<"/", name>>) THEN value ELSE ""

\* ReadIdentificationMetadata with the level taken from productLevel alone
ReadIdentificationMetadata_LevelFieldOnly(f, fault) ==
    LET lsar == <<"/", "science", "/", "LSAR", "/", "identification">>
        ssar == <<"/", "science", "/", "SSAR", "/", "identification">>
        sInst == IF H5LexistsOk(f, lsar) THEN "LSAR"
                 ELSE IF H5LexistsOk(f, ssar) THEN "SSAR"
                 ELSE ""
        sIdentPath == IF sInst = "LSAR" THEN lsar ELSE ssar
        sType == ReadIdentString(f, sIdentPath, "productType",
                                 f.ident.productType)
        sProductLevel == ReadIdentString(f, sIdentPath, "productLevel",
                                         f.ident.productLevel)
        bGrid == FALSE
    IN  IF sInst = "" \/ fault.op = "ident.H5Gopen2"
           \/ ~H5Gopen2Ok(f, sIdentPath)
        THEN [m_sInst |-> sInst, m_sProductType |-> "",
              m_bIsLevel1 |-> FALSE, m_bIsLevel2 |-> FALSE]
        ELSE [m_sInst |-> sInst, m_sProductType |-> sType,
              m_bIsLevel1 |-> EQUAL(sProductLevel, "L1") /\ ~bGrid,
              m_bIsLevel2 |-> \/ (~EQUAL(sProductLevel, "L1")
                                  /\ EQUAL(sProductLevel, "L2"))
                              \/ bGrid]

\* ReadIdentificationMetadata that does not reset m_bIsLevel1 for a grid type
ReadIdentificationMetadata_KeepLevel1(f, fault) ==
    LET lsar == <<"/", "science", "/", "LSAR", "/", "identification">>
        ssar == <<"/", "science", "/", "SSAR", "/", "identification">>
        sInst == IF H5LexistsOk(f, lsar) THEN "LSAR"
                 ELSE IF H5LexistsOk(f, ssar) THEN "SSAR"
                 ELSE ""
        sIdentPath == IF sInst = "LSAR" THEN lsar ELSE ssar
        sType == ReadIdentString(f, sIdentPath, "productType",
                                 f.ident.productType)
        sProductLevel == ReadIdentString(f, sIdentPath, "productLevel",
                                         f.ident.productLevel)
        bGrid == EQUAL(sType, "GUNW") \/ EQUAL(sType, "GCOV")
                 \/ EQUAL(sType, "GSLC")
    IN  IF sInst = "" \/ fault.op = "ident.H5Gopen2"
           \/ ~H5Gopen2Ok(f, sIdentPath)
        THEN [m_sInst |-> sInst, m_sProductType |-> "",
              m_bIsLevel1 |-> FALSE, m_bIsLevel2 |-> FALSE]
        ELSE [m_sInst |-> sInst, m_sProductType |-> sType,
              m_bIsLevel1 |-> EQUAL(sProductLevel, "L1"),
              m_bIsLevel2 |-> \/ (~EQUAL(sProductLevel, "L1")
                                  /\ EQUAL(sProductLevel, "L2"))
                              \/ bGrid]

ReadIdentificationMetadata(f, fault) ==
    LET lsar == <<"/", "science", "/", "LSAR", "/", "identification">>
        ssar == <<"/", "science", "/", "SSAR", "/", "identification">>
        sInst == IF H5LexistsOk(f, lsar) THEN "LSAR"
                 ELSE IF H5LexistsOk(f, ssar) THEN "SSAR"
                 ELSE ""
        sIdentPath == IF sInst = "LSAR" THEN lsar ELSE ssar
        sType == ReadIdentString(f, sIdentPath, "productType",
                                 f.ident.productType)
        sProductLevel == ReadIdentString(f, sIdentPath, "productLevel",
                                         f.ident.productLevel)
        bGrid == EQUAL(sType, "GUNW") \/ EQUAL(sType, "GCOV")
                 \/ EQUAL(sType, "GSLC")
    IN  IF sInst = "" \/ fault.op = "ident.H5Gopen2"
           \/ ~H5Gopen2Ok(f, sIdentPath)
        THEN [m_sInst |-> sInst, m_sProductType |-> "",
              m_bIsLevel1 |-> FALSE, m_bIsLevel2 |-> FALSE]
        ELSE [m_sInst |-> sInst, m_sProductType |-> sType,
              m_bIsLevel1 |-> EQUAL(sProductLevel, "L1") /\ ~bGrid,
              m_bIsLevel2 |-> \/ (~EQUAL(sProductLevel, "L1")
                                  /\ EQUAL(sProductLevel, "L2"))
                              \/ bGrid]

(***************************************************************************)
(* Discovery: NISAR_FindDatasetsVisitor under H5Ovisit                     *)
(***************************************************************************)
lsarPrefix == <<"science", "/", "LSAR", "/">>
ssarPrefix == <<"science", "/", "SSAR", "/">>

\* the visitor without its rank filter
NISAR_FindDatasetsVisitor_AnyRank(f, i, fault) ==
    LET o == Objs(f)[i]
        name == Tail(o.path)
    IN  /\ o.kind = "dataset"
        /\ StartsWith(name, lsarPrefix) \/ StartsWith(name, ssarPrefix)
        /\ ~(fault.op = "visitor.H5Dopen2" /\ fault.obj = i)
        /\ ~(fault.op = "visitor.H5Dget_space" /\ fault.obj = i)

\* TRUE iff the visitor stores the path of object i
NISAR_FindDatasetsVisitor(f, i, fault) ==
    LET o == Objs(f)[i]
        name == Tail(o.path)
    IN  /\ o.kind = "dataset"
        /\ StartsWith(name, lsarPrefix) \/ StartsWith(name, ssarPrefix)
        /\ ~(fault.op = "visitor.H5Dopen2" /\ fault.obj = i)
        /\ ~(fault.op = "visitor.H5Dget_space" /\ fault.obj = i)
        /\ Len(o.dims) >= 2

\* H5Ovisit that stops at the first array the visitor cannot open or inspect
RECURSIVE H5Ovisit_AbortOnFailure(_, _, _)
H5Ovisit_AbortOnFailure(f, i, fault) ==
    IF i > Len(Objs(f)) \/ (fault.op = "H5Ovisit" /\ fault.obj = i)
       \/ (/\ fault.op \in {"visitor.H5Dopen2", "visitor.H5Dget_space"}
           /\ fault.obj = i)
    THEN <<>>
    ELSE (IF NISAR_FindDatasetsVisitor(f, i, fault)
          THEN <<<<"/">> \o Tail(Objs(f)[i].path)>>
          ELSE <<>>)
         \o H5Ovisit_AbortOnFailure(f, i + 1, fault)

\* H5Ovisit from object i on: the paths the visitor stores, in visit order;
\* a failing walk stops before the object it fails on
RECURSIVE H5Ovisit(_, _, _)
H5Ovisit(f, i, fault) ==
    IF i > Len(Objs(f)) \/ (fault.op = "H5Ovisit" /\ fault.obj = i)
    THEN <<>>
    ELSE (IF NISAR_FindDatasetsVisitor(f, i, fault)
          THEN <<<<"/">> \o Tail(Objs(f)[i].path)>>
          ELSE <<>>)
         \o H5Ovisit(f, i + 1, fault)

\* lines 3112-3193: SUBDATASET_n_NAME and SUBDATASET_n_DESC of every path;
\* when the array cannot be opened for its description the entry stays, with
\* the description "[?] path (Error opening)"
SubdatasetList(f, sFilename, found_paths_vector, fault) ==
    [n \in 1..Len(found_paths_vector) |->
        LET hdf5_path == found_paths_vector[n]
            hSubDataset ==
                ~(/\ fault.op = "desc.H5Dopen2"
                  /\ Objs(f)[fault.obj].path = hdf5_path)
        IN  [name |-> SubdatasetName(sFilename, hdf5_path),
             desc |-> IF hSubDataset
                      THEN [shape |-> ObjAt(f, hdf5_path).dims,
                            path |-> hdf5_path,
                            type |-> ObjAt(f, hdf5_path).dtype]
                      ELSE [shape |-> <<>>,
                            path |-> hdf5_path,
                            type |-> "Error opening"]]]

(***************************************************************************)
(* NisarDataset::Open, Priority 2: the array path built from the INST,     *)
(* FREQ and POL open options.                                              *)
(***************************************************************************)
HasOptions(opts) == opts.inst # "" \/ opts.freq # "" \/ opts.pol # ""

OptionPath(f, id, opts) ==
    LET pszInst == IF opts.inst = "" THEN "LSAR" ELSE opts.inst
        pszFreq == IF opts.freq = "" THEN "A" ELSE opts.freq
        bIsGCOV == EQUAL(id.m_sProductType, "GCOV")
        pszPol == IF opts.pol # "" THEN opts.pol
                  ELSE IF bIsGCOV THEN "HHHH" ELSE "HH"
        sMetadataGroupPath ==
            <<"/", "science", "/", ToUpper(pszInst), "/", id.m_sProductType,
              "/", IF id.m_bIsLevel1 THEN "swaths" ELSE "grids",
              "/", "frequency", ToUpper(pszFreq)>>
        sMetadataDatasetName ==
            IF bIsGCOV THEN "listOfCovarianceTerms" ELSE "listOfPolarizations"
        sPolList ==
            IF /\ H5Gopen2Ok(f, sMetadataGroupPath)
               /\ H5Dopen2Ok(f, sMetadataGroupPath
                                    \o <<"/", sMetadataDatasetName>>)
            THEN <<PolOf(f.tree)>>
            ELSE <<>>
    IN  [ok |-> /\ EQUAL(pszInst, "LSAR") \/ EQUAL(pszInst, "SSAR")
                /\ EQUAL(pszFreq, "A") \/ EQUAL(pszFreq, "B")
                /\ id.m_sProductType # ""
                /\ id.m_bIsLevel1 \/ id.m_bIsLevel2
                /\ sPolList # <<>>
                /\ \E i \in 1..Len(sPolList) : EQUAL(sPolList[i], pszPol),
         m_sInst |-> pszInst,
         path |-> sMetadataGroupPath \o <<"/", ToUpper(pszPol)>>]

(***************************************************************************)
(* NisarDataset::GenerateGCPsFromGeolocationGrid                           *)
(***************************************************************************)
\* Read2DSliceAsVec: number of values read from slice 0 of a [h, a, r] cube,
\* -1 when the read fails
Read2DSliceAsVec(f, sGridPath, name) ==
    LET path == sGridPath \o <<"/", name>>
    IN  IF /\ H5Dopen2Ok(f, path)
           /\ Len(ObjAt(f, path).dims) = 3
           /\ ObjAt(f, path).dims[1] > 0
        THEN ObjAt(f, path).dims[2] * ObjAt(f, path).dims[3]
        ELSE -1

\* Read1DDoubleVec: number of values read from a non-empty 1-D array, -1 when
\* the read fails
Read1DDoubleVec(f, sGridPath, name) ==
    LET path == sGridPath \o <<"/", name>>
    IN  IF /\ H5Dopen2Ok(f, path)
           /\ Len(ObjAt(f, path).dims) = 1
           /\ ObjAt(f, path).dims[1] # 0
        THEN ObjAt(f, path).dims[1]
        ELSE -1

\* Read1DDoubleVec: value j of geolocationGrid/slantRange and value i of
\* geolocationGrid/zeroDopplerTime, counted from 0
SlantRangeAt(f, j) == f.geoloc.timing.range0 + j * f.geoloc.timing.rangeStep
AzimuthTimeAt(f, i) == f.geoloc.timing.time0 + i * f.geoloc.timing.timeStep

\* lines 4668-4675: pixel and line of the GCP of range sample j and azimuth
\* sample i, in halves of a pixel (0.5 is one half)
GCPPixel(f, j) ==
    ((SlantRangeAt(f, j) - f.geoloc.timing.startingRange) * Half)
        \div f.geoloc.timing.rangePixelSpacing + 1
GCPLine(f, i) ==
    (f.geoloc.timing.time_epoch + AzimuthTimeAt(f, i)
        - f.geoloc.timing.scene_start_time) * f.geoloc.timing.prf * Half + 1

\* Read2DSliceAsVec reads slice 0 of a [height, rows, cols] cube row by row:
\* the element of the cube that lands at position grid_index of the vector
SliceCell(f, sGridPath, name, grid_index) ==
    LET dims == ObjAt(f, sGridPath \o <<"/", name>>).dims
    IN  [row |-> grid_index \div dims[3], col |-> grid_index % dims[3]]

NoGCPs == [ok |-> FALSE, gcps |-> <<>>, srs |-> 0]

\* GenerateGCPsFromGeolocationGrid with the two loops exchanged
GenerateGCPsFromGeolocationGrid_RangeMajor(f, sInst, pszProductGroup, fault) ==
    LET sGridPath == <<"/", "science", "/", sInst, "/", pszProductGroup,
                       "/", "metadata", "/", "geolocationGrid">>
        sSwathPath == <<"/", "science", "/", sInst, "/", pszProductGroup,
                        "/", "swaths", "/", "frequency", "A">>
        x_coords == Read2DSliceAsVec(f, sGridPath, "coordinateX")
        y_coords == Read2DSliceAsVec(f, sGridPath, "coordinateY")
        slant_ranges == Read1DDoubleVec(f, sGridPath, "slantRange")
        azimuth_times == Read1DDoubleVec(f, sGridPath, "zeroDopplerTime")
        n == azimuth_times * slant_ranges
    IN  IF /\ H5Gopen2Ok(f, sGridPath)
           /\ f.geoloc.epsg > 0
           /\ fault.op # "gcp.H5Dread"
           /\ x_coords >= 0 /\ y_coords >= 0
           /\ slant_ranges >= 0 /\ azimuth_times >= 0
           /\ f.geoloc.units = "ok"
           \* startingRange, slantRangeSpacing, nominalAcquisitionPRF
           /\ f.geoloc.scalars /\ H5Gopen2Ok(f, sSwathPath)
           \* /science/<INST>/identification/zeroDopplerStartTime
           /\ f.geoloc.startTime = "ok"
           /\ H5Gopen2Ok(f, <<"/", "science", "/", sInst, "/",
                              "identification">>)
           \* x_coords.at(grid_index), y_coords.at(grid_index)
           /\ n <= x_coords /\ n <= y_coords
        THEN [ok |-> TRUE,
              gcps |-> [k \in 1..n |->
                           [pszId |-> k,
                            i |-> (k - 1) % azimuth_times,
                            j |-> (k - 1) \div azimuth_times,
                            dfGCPPixel |->
                                GCPPixel(f, (k - 1) % slant_ranges),
                            dfGCPLine |->
                                GCPLine(f, (k - 1) \div slant_ranges),
                            dfGCPX |-> SliceCell(f, sGridPath, "coordinateX",
                                                 k - 1),
                            dfGCPY |-> SliceCell(f, sGridPath, "coordinateY",
                                                 k - 1)]],
              srs |-> f.geoloc.epsg]
        ELSE NoGCPs

\* GenerateGCPsFromGeolocationGrid publishing the GCPs built before the cube
\* ran out
GenerateGCPsFromGeolocationGrid_Partial(f, sInst, pszProductGroup, fault) ==
    LET sGridPath == <<"/", "science", "/", sInst, "/", pszProductGroup,
                       "/", "metadata", "/", "geolocationGrid">>
        sSwathPath == <<"/", "science", "/", sInst, "/", pszProductGroup,
                        "/", "swaths", "/", "frequency", "A">>
        x_coords == Read2DSliceAsVec(f, sGridPath, "coordinateX")
        y_coords == Read2DSliceAsVec(f, sGridPath, "coordinateY")
        slant_ranges == Read1DDoubleVec(f, sGridPath, "slantRange")
        azimuth_times == Read1DDoubleVec(f, sGridPath, "zeroDopplerTime")
        n == azimuth_times * slant_ranges
    IN  IF /\ H5Gopen2Ok(f, sGridPath)
           /\ f.geoloc.epsg > 0
           /\ fault.op # "gcp.H5Dread"
           /\ x_coords >= 0 /\ y_coords >= 0
           /\ slant_ranges >= 0 /\ azimuth_times >= 0
           /\ f.geoloc.units = "ok"
           \* startingRange, slantRangeSpacing, nominalAcquisitionPRF
           /\ f.geoloc.scalars /\ H5Gopen2Ok(f, sSwathPath)
           \* /science/<INST>/identification/zeroDopplerStartTime
           /\ f.geoloc.startTime = "ok"
           /\ H5Gopen2Ok(f, <<"/", "science", "/", sInst, "/",
                              "identification">>)
        THEN [ok |-> TRUE,
              gcps |-> [k \in 1..(IF x_coords < n THEN x_coords ELSE n) |->
                           [pszId |-> k,
                            i |-> (k - 1) \div slant_ranges,
                            j |-> (k - 1) % slant_ranges,
                            dfGCPPixel |->
                                GCPPixel(f, (k - 1) % slant_ranges),
                            dfGCPLine |->
                                GCPLine(f, (k - 1) \div slant_ranges),
                            dfGCPX |-> SliceCell(f, sGridPath, "coordinateX",
                                                 k - 1),
                            dfGCPY |-> SliceCell(f, sGridPath, "coordinateY",
                                                 k - 1)]],
              srs |-> f.geoloc.epsg]
        ELSE NoGCPs

\* GenerateGCPsFromGeolocationGrid without the half pixel added to pixel
\* and line
GenerateGCPsFromGeolocationGrid_Corner(f, sInst, pszProductGroup, fault) ==
    LET sGridPath == <<"/", "science", "/", sInst, "/", pszProductGroup,
                       "/", "metadata", "/", "geolocationGrid">>
        sSwathPath == <<"/", "science", "/", sInst, "/", pszProductGroup,
                        "/", "swaths", "/", "frequency", "A">>
        x_coords == Read2DSliceAsVec(f, sGridPath, "coordinateX")
        y_coords == Read2DSliceAsVec(f, sGridPath, "coordinateY")
        slant_ranges == Read1DDoubleVec(f, sGridPath, "slantRange")
        azimuth_times == Read1DDoubleVec(f, sGridPath, "zeroDopplerTime")
        n == azimuth_times * slant_ranges
    IN  IF /\ H5Gopen2Ok(f, sGridPath)
           /\ f.geoloc.epsg > 0
           /\ fault.op # "gcp.H5Dread"
           /\ x_coords >= 0 /\ y_coords >= 0
           /\ slant_ranges >= 0 /\ azimuth_times >= 0
           /\ f.geoloc.units = "ok"
           \* startingRange, slantRangeSpacing, nominalAcquisitionPRF
           /\ f.geoloc.scalars /\ H5Gopen2Ok(f, sSwathPath)
           \* /science/<INST>/identification/zeroDopplerStartTime
           /\ f.geoloc.startTime = "ok"
           /\ H5Gopen2Ok(f, <<"/", "science", "/", sInst, "/",
                              "identification">>)
           \* x_coords.at(grid_index), y_coords.at(grid_index)
           /\ n <= x_coords /\ n <= y_coords
        THEN [ok |-> TRUE,
              gcps |-> [k \in 1..n |->
                           [pszId |-> k,
                            i |-> (k - 1) \div slant_ranges,
                            j |-> (k - 1) % slant_ranges,
                            dfGCPPixel |->
                                GCPPixel(f, (k - 1) % slant_ranges) - 1,
                            dfGCPLine |->
                                GCPLine(f, (k - 1) \div slant_ranges) - 1,
                            dfGCPX |-> SliceCell(f, sGridPath, "coordinateX",
                                                 k - 1),
                            dfGCPY |-> SliceCell(f, sGridPath, "coordinateY",
                                                 k - 1)]],
              srs |-> f.geoloc.epsg]
        ELSE NoGCPs

GenerateGCPsFromGeolocationGrid(f, sInst, pszProductGroup, fault) ==
    LET sGridPath == <<"/", "science", "/", sInst, "/", pszProductGroup,
                       "/", "metadata", "/", "geolocationGrid">>
        sSwathPath == <<"/", "science", "/", sInst, "/", pszProductGroup,
                        "/", "swaths", "/", "frequency", "A">>
        x_coords == Read2DSliceAsVec(f, sGridPath, "coordinateX")
        y_coords == Read2DSliceAsVec(f, sGridPath, "coordinateY")
        slant_ranges == Read1DDoubleVec(f, sGridPath, "slantRange")
        azimuth_times == Read1DDoubleVec(f, sGridPath, "zeroDopplerTime")
        n == azimuth_times * slant_ranges
    IN  IF /\ H5Gopen2Ok(f, sGridPath)
           /\ f.geoloc.epsg > 0
           /\ fault.op # "gcp.H5Dread"
           /\ x_coords >= 0 /\ y_coords >= 0
           /\ slant_ranges >= 0 /\ azimuth_times >= 0
           /\ f.geoloc.units = "ok"
           \* startingRange, slantRangeSpacing, nominalAcquisitionPRF
           /\ f.geoloc.scalars /\ H5Gopen2Ok(f, sSwathPath)
           \* /science/<INST>/identification/zeroDopplerStartTime
           /\ f.geoloc.startTime = "ok"
           /\ H5Gopen2Ok(f, <<"/", "science", "/", sInst, "/",
                              "identification">>)
           \* x_coords.at(grid_index), y_coords.at(grid_index)
           /\ n <= x_coords /\ n <= y_coords
        THEN [ok |-> TRUE,
              gcps |-> [k \in 1..n |->
                           [pszId |-> k,
                            i |-> (k - 1) \div slant_ranges,
                            j |-> (k - 1) % slant_ranges,
                            dfGCPPixel |->
                                GCPPixel(f, (k - 1) % slant_ranges),
                            dfGCPLine |->
                                GCPLine(f, (k - 1) \div slant_ranges),
                            dfGCPX |-> SliceCell(f, sGridPath, "coordinateX",
                                                 k - 1),
                            dfGCPY |-> SliceCell(f, sGridPath, "coordinateY",
                                                 k - 1)]],
              srs |-> f.geoloc.epsg]
        ELSE NoGCPs

\* The store handles of one run of GenerateGCPsFromGeolocationGrid, by the
\* name of the variable that holds them (hScalarDset holds three handles in
\* turn): opened, in the order of the H5Gopen2 / H5Dopen2 / H5Screate_simple
\* / H5Dget_space / H5Dget_type calls that returned them, and closed, in the
\* order of the closes of the cleanup block.  uninitRead: the cleanup tests
\* and closes hEpsgDset, which no statement has assigned.  The handles of
\* Read2DSliceAsVec and Read1DDoubleVec, which those functions close
\* themselves, are left out.
GCPHandles(f, sInst, pszProductGroup, fault) ==
    LET sGridPath == <<"/", "science", "/", sInst, "/", pszProductGroup,
                       "/", "metadata", "/", "geolocationGrid">>
        sSwathPath == <<"/", "science", "/", sInst, "/", pszProductGroup,
                        "/", "swaths", "/", "frequency", "A">>
        vectors == /\ Read2DSliceAsVec(f, sGridPath, "coordinateX") >= 0
                   /\ Read2DSliceAsVec(f, sGridPath, "coordinateY") >= 0
                   /\ Read1DDoubleVec(f, sGridPath, "slantRange") >= 0
                   /\ Read1DDoubleVec(f, sGridPath, "zeroDopplerTime") >= 0
        hStartTime == /\ f.geoloc.startTime # "none"
                      /\ H5Gopen2Ok(f, <<"/", "science", "/", sInst, "/",
                                         "identification">>)
        atEpsg == <<"hGridGroup", "hEpsgDset">>
        atUnits == atEpsg \o <<"hAzimuthTimeDset">>
        atScalars == atUnits \o <<"hSlantRangeDset", "hMemSpace",
                                  "hFileSpace",
                                  "hScalarDset:slantRangeSpacing",
                                  "hScalarDset:nominalAcquisitionPRF">>
        atStartTime == atScalars \o <<"hScalarDset:zeroDopplerStartTime",
                                      "hStrType">>
    IN  IF ~H5Gopen2Ok(f, sGridPath)
        THEN [opened |-> <<>>, closed |-> <<>>, uninitRead |-> TRUE]
        ELSE IF f.geoloc.epsg <= 0 \/ fault.op = "gcp.H5Dread" \/ ~vectors
        THEN [opened |-> atEpsg, closed |-> <<"hGridGroup", "hEpsgDset">>,
              uninitRead |-> FALSE]
        ELSE IF f.geoloc.units # "ok"
                \/ ~(f.geoloc.scalars /\ H5Gopen2Ok(f, sSwathPath))
        THEN [opened |-> atUnits, closed |-> <<"hGridGroup", "hEpsgDset">>,
              uninitRead |-> FALSE]
        ELSE IF ~hStartTime
        THEN [opened |-> atScalars,
              closed |-> <<"hGridGroup", "hEpsgDset", "hSlantRangeDset",
                           "hMemSpace", "hFileSpace">>,
              uninitRead |-> FALSE]
        ELSE [opened |-> atStartTime,
              closed |-> <<"hScalarDset:zeroDopplerStartTime", "hGridGroup",
                           "hEpsgDset", "hSlantRangeDset", "hMemSpace",
                           "hFileSpace", "hStrType">>,
              uninitRead |-> FALSE]

(***************************************************************************)
(* NisarDataset::Open                                                      *)
(***************************************************************************)
DefaultBlockSize == 512

\* NisarDataset::GetGDALDataType and GDALGetDataTypeSizeBytes; 0 stands for
\* GDT_Unknown
TypeSizeBytes(dtype) ==
    CASE dtype = "Byte" -> 1
      [] dtype = "Int16" -> 2
      [] dtype = "Float32" -> 4
      [] dtype = "CFloat32" -> 8
      [] OTHER -> 0

\* NisarDataset::NisarDataset(): the members of a dataset that holds nothing
IdentityGeoTransform == <<0, 1 * Half, 0, 0, 0, 1 * Half>>

EmptyDataset(sFilename, id, nVisits) ==
    [poDS |-> "NULL", pszFilename |-> sFilename, hDataset |-> <<>>,
     m_sInst |-> id.m_sInst, m_sProductType |-> id.m_sProductType,
     m_bIsLevel1 |-> id.m_bIsLevel1, m_bIsLevel2 |-> id.m_bIsLevel2,
     papszSubDatasets |-> <<>>, discoveryRuns |-> nVisits,
     gcpList |-> <<>>, gcpSRS |-> 0,
     nRasterXSize |-> 0, nRasterYSize |-> 0, nBands |-> 0, leadDims |-> <<>>,
     nBlockXSize |-> 0, nBlockYSize |-> 0, nDataTypeSize |-> 0,
     hH5Type |-> <<>>]

NoIdentity == [m_sInst |-> "", m_sProductType |-> "",
               m_bIsLevel1 |-> FALSE, m_bIsLevel2 |-> FALSE]

\* a failed Open returns no dataset (delete poDS; return nullptr)
OpenFailed(nVisits) == EmptyDataset(<<>>, NoIdentity, nVisits)

\* OpenRaster with an unknown level or a failed GCP generation failing the
\* open
OpenRaster_GeorefRequired(f, sFilename, id, pathToOpen, fault) ==
    LET o == ObjAt(f, pathToOpen)
        nDims == Len(o.dims)
        lead == SubSeq(o.dims, 1, nDims - 2)
        nb == nBandsToCreate(lead)
        gcp == IF ~id.m_bIsLevel2 /\ id.m_bIsLevel1
               THEN GenerateGCPsFromGeolocationGrid(f, id.m_sInst,
                                                    id.m_sProductType, fault)
               ELSE NoGCPs
    IN  IF \/ ~(id.m_bIsLevel1 \/ id.m_bIsLevel2)
           \/ (id.m_bIsLevel1 /\ ~id.m_bIsLevel2 /\ ~gcp.ok)
           \/ ~H5LexistsOk(f, pathToOpen)
           \/ ~H5Dopen2Ok(f, pathToOpen) \/ fault.op = "H5Dopen2"
           \/ fault.op = "H5Dget_type"
           \/ TypeSizeBytes(o.dtype) = 0
           \/ fault.op = "H5Dget_space"
           \/ nDims < 2
           \/ o.dims[nDims] <= 0 \/ o.dims[nDims - 1] <= 0
        THEN OpenFailed(0)
        ELSE [EmptyDataset(sFilename, id, 0) EXCEPT
                 !.poDS = "raster",
                 !.hDataset = AbsPath(pathToOpen),
                 !.nRasterYSize = o.dims[nDims - 1],
                 !.nRasterXSize = o.dims[nDims],
                 !.leadDims = lead,
                 !.nBands = nb,
                 !.nDataTypeSize = TypeSizeBytes(o.dtype),
                 !.hH5Type = [b \in 1..nb |-> fault.op # "band.H5Dget_type"],
                 !.nBlockXSize = IF o.chunk # <<>> /\ o.chunk[nDims] > 0
                                    /\ o.chunk[nDims - 1] > 0
                                 THEN o.chunk[nDims] ELSE DefaultBlockSize,
                 !.nBlockYSize = IF o.chunk # <<>> /\ o.chunk[nDims] > 0
                                    /\ o.chunk[nDims - 1] > 0
                                 THEN o.chunk[nDims - 1] ELSE DefaultBlockSize,
                 !.gcpList = gcp.gcps,
                 !.gcpSRS = gcp.srs]

\* lines 3225-3460: open the array at pathToOpen and build the raster
OpenRaster(f, sFilename, id, pathToOpen, fault) ==
    LET o == ObjAt(f, pathToOpen)
        nDims == Len(o.dims)
        lead == SubSeq(o.dims, 1, nDims - 2)
        nb == nBandsToCreate(lead)
        gcp == IF ~id.m_bIsLevel2 /\ id.m_bIsLevel1
               THEN GenerateGCPsFromGeolocationGrid(f, id.m_sInst,
                                                    id.m_sProductType, fault)
               ELSE NoGCPs
    IN  IF \/ ~H5LexistsOk(f, pathToOpen)
           \/ ~H5Dopen2Ok(f, pathToOpen) \/ fault.op = "H5Dopen2"
           \/ fault.op = "H5Dget_type"
           \/ TypeSizeBytes(o.dtype) = 0
           \/ fault.op = "H5Dget_space"
           \/ nDims < 2
           \/ o.dims[nDims] <= 0 \/ o.dims[nDims - 1] <= 0
        THEN OpenFailed(0)
        ELSE [EmptyDataset(sFilename, id, 0) EXCEPT
                 !.poDS = "raster",
                 !.hDataset = AbsPath(pathToOpen),
                 !.nRasterYSize = o.dims[nDims - 1],
                 !.nRasterXSize = o.dims[nDims],
                 !.leadDims = lead,
                 !.nBands = nb,
                 !.nDataTypeSize = TypeSizeBytes(o.dtype),
                 !.hH5Type = [b \in 1..nb |-> fault.op # "band.H5Dget_type"],
                 !.nBlockXSize = IF o.chunk # <<>> /\ o.chunk[nDims] > 0
                                    /\ o.chunk[nDims - 1] > 0
                                 THEN o.chunk[nDims] ELSE DefaultBlockSize,
                 !.nBlockYSize = IF o.chunk # <<>> /\ o.chunk[nDims] > 0
                                    /\ o.chunk[nDims - 1] > 0
                                 THEN o.chunk[nDims - 1] ELSE DefaultBlockSize,
                 !.gcpList = gcp.gcps,
                 !.gcpSRS = gcp.srs]

\* lines 3077-3222: Priority 3, the walk and the container
OpenContainer(f, sFilename, id, fault) ==
    LET found_paths_vector == H5Ovisit(f, 1, fault)
    IN  IF found_paths_vector # <<>>
        THEN [EmptyDataset(sFilename, id, 1) EXCEPT
                 !.poDS = "container",
                 !.papszSubDatasets =
                     SubdatasetList(f, sFilename, found_paths_vector,
                                    fault)]
        ELSE OpenFailed(1)

\* Open with the path built from the open options left out
OpenResult_NoOptionPath(f, pszFullInput, opts, fault) ==
    LET p == ParseOpenName(pszFullInput)
        id == ReadIdentificationMetadata(f, fault)
    IN  IF \/ ~Identify(f, pszFullInput, fault)
           \/ ~p.ok
           \/ p.filename # FileName \/ fault.op = "H5Fopen"
        THEN OpenFailed(0)
        ELSE IF p.hasPath
        THEN OpenRaster(f, p.filename, id, p.path, fault)
        ELSE OpenContainer(f, p.filename, id, fault)

\* the whole of GDALOpen on this driver: Identify, then Open
OpenResult(f, pszFullInput, opts, fault) ==
    LET p == ParseOpenName(pszFullInput)
        id == ReadIdentificationMetadata(f, fault)
        o2 == OptionPath(f, id, opts)
    IN  IF \/ ~Identify(f, pszFullInput, fault)
           \/ ~p.ok
           \/ p.filename # FileName \/ fault.op = "H5Fopen"
        THEN OpenFailed(0)
        ELSE IF p.hasPath
        THEN OpenRaster(f, p.filename, id, p.path, fault)
        ELSE IF HasOptions(opts)
        THEN IF o2.ok
             THEN OpenRaster(f, p.filename,
                             [id EXCEPT !.m_sInst = o2.m_sInst],
                             o2.path, fault)
             ELSE OpenFailed(0)
        ELSE OpenContainer(f, p.filename, id, fault)

(***************************************************************************)
(* NisarDataset::GetGeoTransform.  No .aux.xml sidecar exists, so the PAM  *)
(* lookup that comes first always fails.                                   *)
(***************************************************************************)
\* ReadGeoTransformAttribute without the checks of type and size
ReadGeoTransformAttribute_AnyShape(f, hObject) ==
    LET a == ObjAt(f, hObject).gt
    IN  [ok |-> a.present, gt |-> a.values]

ReadGeoTransformAttribute(f, hObject) ==
    LET a == ObjAt(f, hObject).gt
    IN  [ok |-> a.present /\ a.type = "NATIVE_DOUBLE" /\ Len(a.values) = 6,
         gt |-> a.values]

\* the walk up from sSearchPath to the first ancestor holding xCoordinates,
\* <<>> if there is none
RECURSIVE CoordsRoot(_, _)
CoordsRoot(f, sSearchPath) ==
    LET nLastSlash == LastIndexOf(sSearchPath, "/")
        sParent == SubSeq(sSearchPath, 1, nLastSlash - 1)
    IN  IF Len(sSearchPath) <= 1 \/ nLastSlash <= 1
        THEN <<>>
        ELSE IF H5LexistsOk(f, sParent \o <<"/", "xCoordinates">>)
        THEN sParent
        ELSE CoordsRoot(f, sParent)

\* the values of a coordinate vector of the file
CoordValues(f, path) ==
    IF path = FrequencyGroup(f) \o <<"/", "xCoordinates">> THEN f.coords.x
    ELSE IF path = FrequencyGroup(f) \o <<"/", "yCoordinates">> THEN f.coords.y
    ELSE IF path = LayerGroup(f) \o <<"/", "xCoordinates">> THEN f.upCoords.x
    ELSE IF path = LayerGroup(f) \o <<"/", "yCoordinates">> THEN f.upCoords.y
    ELSE <<>>

\* GeoTransformFromCoordinates without the shift from the centre of the first
\* pixel to its corner
GeoTransformFromCoordinates_NoShift(f, sCurrentPath) ==
    LET sCoordsRoot == CoordsRoot(f, sCurrentPath)
        sXCoordsPath == sCoordsRoot \o <<"/", "xCoordinates">>
        sYCoordsPath == sCoordsRoot \o <<"/", "yCoordinates">>
        x == CoordValues(f, sXCoordsPath)
        y == CoordValues(f, sYCoordsPath)
        resX == ((x[Len(x)] - x[1]) * Half) \div (Len(x) - 1)
        resY == ((y[Len(y)] - y[1]) * Half) \div (Len(y) - 1)
    IN  IF /\ \/ Contains(sCurrentPath, <<"/", "grids", "/">>)
              \/ Contains(sCurrentPath, <<"/", "calibrationInformation", "/">>)
              \/ Contains(sCurrentPath, <<"/", "radarGrid", "/">>)
           /\ sCoordsRoot # <<>>
           /\ H5Dopen2Ok(f, sXCoordsPath) /\ H5Dopen2Ok(f, sYCoordsPath)
           /\ Len(x) >= 2 /\ Len(y) >= 2
        THEN [ok |-> TRUE,
              gt |-> <<x[1] * Half, resX, 0,
                       y[1] * Half, 0, resY>>]
        ELSE [ok |-> FALSE, gt |-> <<>>]

\* lines 3734-3873: the transform derived from the coordinate vectors
GeoTransformFromCoordinates(f, sCurrentPath) ==
    LET sCoordsRoot == CoordsRoot(f, sCurrentPath)
        sXCoordsPath == sCoordsRoot \o <<"/", "xCoordinates">>
        sYCoordsPath == sCoordsRoot \o <<"/", "yCoordinates">>
        x == CoordValues(f, sXCoordsPath)
        y == CoordValues(f, sYCoordsPath)
        resX == ((x[Len(x)] - x[1]) * Half) \div (Len(x) - 1)
        resY == ((y[Len(y)] - y[1]) * Half) \div (Len(y) - 1)
    IN  IF /\ \/ Contains(sCurrentPath, <<"/", "grids", "/">>)
              \/ Contains(sCurrentPath, <<"/", "calibrationInformation", "/">>)
              \/ Contains(sCurrentPath, <<"/", "radarGrid", "/">>)
           /\ sCoordsRoot # <<>>
           /\ H5Dopen2Ok(f, sXCoordsPath) /\ H5Dopen2Ok(f, sYCoordsPath)
           /\ Len(x) >= 2 /\ Len(y) >= 2
        THEN [ok |-> TRUE,
              gt |-> <<x[1] * Half - resX \div 2, resX, 0,
                       y[1] * Half - resY \div 2, 0, resY>>]
        ELSE [ok |-> FALSE, gt |-> <<>>]

\* the store calls of the coordinate stage: the existence tests of the walk
\* (one entry for all of them), the two opens once a root is found, the reads
\* of first and last value once both vectors hold two values
CoordinateStoreCalls(f, sCurrentPath) ==
    LET sCoordsRoot == CoordsRoot(f, sCurrentPath)
        sXCoordsPath == sCoordsRoot \o <<"/", "xCoordinates">>
        sYCoordsPath == sCoordsRoot \o <<"/", "yCoordinates">>
    IN  IF ~(\/ Contains(sCurrentPath, <<"/", "grids", "/">>)
             \/ Contains(sCurrentPath, <<"/", "calibrationInformation", "/">>)
             \/ Contains(sCurrentPath, <<"/", "radarGrid", "/">>))
        THEN <<>>
        ELSE <<"H5Lexists">>
             \o (IF sCoordsRoot # <<>>
                 THEN <<"H5Dopen2", "H5Dopen2">>
                      \o (IF /\ H5Dopen2Ok(f, sXCoordsPath)
                              /\ H5Dopen2Ok(f, sYCoordsPath)
                          THEN <<"H5Dget_space", "H5Dget_space">>
                               \o (IF /\ Len(CoordValues(f, sXCoordsPath)) >= 2
                                       /\ Len(CoordValues(f, sYCoordsPath)) >= 2
                                   THEN <<"H5Dread", "H5Dread", "H5Dread",
                                          "H5Dread">>
                                   ELSE <<>>)
                          ELSE <<>>)
                 ELSE <<>>)

\* no GetGeoTransform call made yet
NoCall == [ret |-> "none", gt |-> <<>>]

\* GetGeoTransform without the early exit of line 3705
GetGeoTransformResult_IgnoreGCPs ==
    LET attr == ReadGeoTransformAttribute(file, hDataset)
        calc == GeoTransformFromCoordinates(file, hDataset)
        io == <<"ReadGeoTransformAttribute">>
              \o (IF ~attr.ok /\ m_bIsLevel2
                  THEN CoordinateStoreCalls(file, hDataset)
                  ELSE <<>>)
    IN  IF m_bGotGeoTransform
        THEN [ret |-> "CE_None", gt |-> m_adfGeoTransform, io |-> <<>>]
        ELSE IF hDataset = <<>>
        THEN [ret |-> "CE_Failure", gt |-> <<>>, io |-> <<>>]
        ELSE IF attr.ok
        THEN [ret |-> "CE_None", gt |-> attr.gt, io |-> io]
        ELSE IF m_bIsLevel2 /\ calc.ok
        THEN [ret |-> "CE_None", gt |-> calc.gt, io |-> io]
        ELSE [ret |-> "CE_Failure", gt |-> <<>>, io |-> io]

\* GetGeoTransform with the coordinate vectors tried before the attribute
GetGeoTransformResult_CoordinatesFirst ==
    LET attr == ReadGeoTransformAttribute(file, hDataset)
        calc == GeoTransformFromCoordinates(file, hDataset)
        io == <<"ReadGeoTransformAttribute">>
              \o (IF ~attr.ok /\ m_bIsLevel2
                  THEN CoordinateStoreCalls(file, hDataset)
                  ELSE <<>>)
    IN  IF m_bGotGeoTransform
        THEN [ret |-> "CE_None", gt |-> m_adfGeoTransform, io |-> <<>>]
        ELSE IF Len(gcpList) > 0 \/ hDataset = <<>>
        THEN [ret |-> "CE_Failure", gt |-> <<>>, io |-> <<>>]
        ELSE IF m_bIsLevel2 /\ calc.ok
        THEN [ret |-> "CE_None", gt |-> calc.gt, io |-> io]
        ELSE IF attr.ok
        THEN [ret |-> "CE_None", gt |-> attr.gt, io |-> io]
        ELSE [ret |-> "CE_Failure", gt |-> <<>>, io |-> io]

\* GetGeoTransform with an attribute that is present but malformed ending
\* the derivation
GetGeoTransformResult_AttributeDecides ==
    LET attr == ReadGeoTransformAttribute(file, hDataset)
        calc == GeoTransformFromCoordinates(file, hDataset)
        io == <<"ReadGeoTransformAttribute">>
              \o (IF ~attr.ok /\ m_bIsLevel2
                  THEN CoordinateStoreCalls(file, hDataset)
                  ELSE <<>>)
    IN  IF m_bGotGeoTransform
        THEN [ret |-> "CE_None", gt |-> m_adfGeoTransform, io |-> <<>>]
        ELSE IF Len(gcpList) > 0 \/ hDataset = <<>>
        THEN [ret |-> "CE_Failure", gt |-> <<>>, io |-> <<>>]
        ELSE IF attr.ok
        THEN [ret |-> "CE_None", gt |-> attr.gt, io |-> io]
        ELSE IF ~ObjAt(file, hDataset).gt.present /\ m_bIsLevel2 /\ calc.ok
        THEN [ret |-> "CE_None", gt |-> calc.gt, io |-> io]
        ELSE [ret |-> "CE_Failure", gt |-> <<>>, io |-> io]

GetGeoTransformResult ==
    LET attr == ReadGeoTransformAttribute(file, hDataset)
        calc == GeoTransformFromCoordinates(file, hDataset)
        io == <<"ReadGeoTransformAttribute">>
              \o (IF ~attr.ok /\ m_bIsLevel2
                  THEN CoordinateStoreCalls(file, hDataset)
                  ELSE <<>>)
    IN  IF m_bGotGeoTransform
        THEN [ret |-> "CE_None", gt |-> m_adfGeoTransform, io |-> <<>>]
        ELSE IF Len(gcpList) > 0 \/ hDataset = <<>>
        THEN [ret |-> "CE_Failure", gt |-> <<>>, io |-> <<>>]
        ELSE IF attr.ok
        THEN [ret |-> "CE_None", gt |-> attr.gt, io |-> io]
        ELSE IF m_bIsLevel2 /\ calc.ok
        THEN [ret |-> "CE_None", gt |-> calc.gt, io |-> io]
        ELSE [ret |-> "CE_Failure", gt |-> <<>>, io |-> io]

GetGeoTransform ==
    /\ poDS \in {"container", "raster"}
    /\ LET r == GetGeoTransformResult
       IN  /\ gtRet' = r.ret
           /\ IF r.ret = "CE_None"
              THEN /\ oGT' = r.gt
                   /\ m_bGotGeoTransform' = TRUE
                   /\ m_adfGeoTransform' = r.gt
              ELSE UNCHANGED <<oGT, m_bGotGeoTransform, m_adfGeoTransform>>
           /\ gtLog' = r.io
    /\ gtPrev' = IF lastOp = "GetGeoTransform"
                 THEN [ret |-> gtRet, gt |-> oGT]
                 ELSE NoCall
    /\ lastOp' = "GetGeoTransform"
    /\ UNCHANGED <<bandVars, tileVars, file, poDS, request, pszFilename,
                   hDataset, m_sInst, m_sProductType, m_bIsLevel1,
                   m_bIsLevel2, papszSubDatasets, discoveryRuns, gcpList,
                   gcpSRS, gcpRet, maskVars, cacheVars>>

\* GDALDataset::GetGCPCount / GetGCPs: the list attached with SetGCPs
GetGCPs ==
    /\ poDS \in {"container", "raster"}
    /\ gcpRet' = Len(gcpList)
    /\ gtPrev' = NoCall
    /\ lastOp' = "GetGCPs"
    /\ UNCHANGED <<bandVars, tileVars, file, poDS, request, pszFilename,
                   hDataset, m_sInst, m_sProductType, m_bIsLevel1,
                   m_bIsLevel2, papszSubDatasets, discoveryRuns, gcpList,
                   gcpSRS, m_bGotGeoTransform, m_adfGeoTransform, gtRet, oGT,
                   gtLog, maskVars, cacheVars>>

(***************************************************************************)
(* The actions on the dataset.  One dataset is held at a time: Open needs  *)
(* none to be held, GDALClose releases the one held.                       *)
(***************************************************************************)
IdleRequest == [name |-> <<>>, opts |-> NoOptions, fault |-> NoFault,
                entry |-> 0, entryPath |-> <<>>]

SetDataset(r) ==
    /\ poDS' = r.poDS
    /\ pszFilename' = r.pszFilename
    /\ hDataset' = r.hDataset
    /\ m_sInst' = r.m_sInst
    /\ m_sProductType' = r.m_sProductType
    /\ m_bIsLevel1' = r.m_bIsLevel1
    /\ m_bIsLevel2' = r.m_bIsLevel2
    /\ papszSubDatasets' = r.papszSubDatasets
    /\ discoveryRuns' = r.discoveryRuns
    /\ gcpList' = r.gcpList
    /\ gcpSRS' = r.gcpSRS
    /\ nRasterXSize' = r.nRasterXSize
    /\ nRasterYSize' = r.nRasterYSize
    /\ nBands' = r.nBands
    /\ leadDims' = r.leadDims
    /\ nBlockXSize' = r.nBlockXSize
    /\ nBlockYSize' = r.nBlockYSize
    /\ nDataTypeSize' = r.nDataTypeSize
    /\ hH5Type' = r.hH5Type
    /\ m_bGotGeoTransform' = FALSE
    /\ m_adfGeoTransform' = IdentityGeoTransform
    /\ gtRet' = "none"
    /\ oGT' = <<>>
    /\ gcpRet' = -1
    /\ gtLog' = <<>>
    /\ gtPrev' = NoCall

\* GDALOpen(pszFullInput) with open options, under an injected failure
Open(pszFullInput, opts, fault) ==
    /\ poDS = "none"
    /\ SetDataset(OpenResult(file, pszFullInput, opts, fault))
    /\ request' = [name |-> pszFullInput, opts |-> opts, fault |-> fault,
                   entry |-> 0, entryPath |-> <<>>]
    /\ lastOp' = "Open"
    /\ UNCHANGED <<tileVars, file, maskVars, cacheVars>>

\* GDALOpen of the name of catalog entry n of the container held
OpenSubdataset(n) ==
    /\ poDS = "container"
    /\ n \in 1..Len(papszSubDatasets)
    /\ SetDataset(OpenResult(file, papszSubDatasets[n].name, NoOptions,
                             NoFault))
    /\ request' = [name |-> papszSubDatasets[n].name, opts |-> NoOptions,
                   fault |-> NoFault, entry |-> n,
                   entryPath |-> papszSubDatasets[n].desc.path]
    /\ lastOp' = "Open"
    /\ UNCHANGED <<tileVars, file, maskVars, cacheVars>>

\* GDALClose: NisarDataset::~NisarDataset
GDALClose ==
    /\ poDS # "none"
    /\ SetDataset([OpenFailed(0) EXCEPT !.poDS = "none"])
    /\ request' = IdleRequest
    /\ lastOp' = "GDALClose"
    /\ UNCHANGED <<tileVars, file, maskVars, cacheVars>>

(***************************************************************************)
(* The files and the requests the model ranges over.                       *)
(***************************************************************************)
CoordVector(n, first, step) == [k \in 1..n |-> first + step * (k - 1)]

NoCoords == [x |-> <<>>, y |-> <<>>]
BothCoords == [x |-> CoordVector(MaxCoord, 10, 2),
               y |-> CoordVector(MaxCoord, 50, -2)]
XOnlyCoords == [x |-> CoordVector(MaxCoord, 10, 2), y |-> <<>>]
OnePointCoords == [x |-> <<10>>, y |-> <<50>>]
YOnlyCoords == [x |-> <<>>, y |-> CoordVector(MaxCoord, 50, -2)]
OddCoords == [x |-> CoordVector(2, 11, 1), y |-> CoordVector(MaxCoord, 7, -3)]
UpperCoords == [x |-> CoordVector(MaxCoord, 20, 4),
                y |-> CoordVector(2, 90, -4)]
UpperXOnlyCoords == [x |-> CoordVector(MaxCoord, 20, 4), y |-> <<>>]

\* the numbers the GCP generation reads: first value and step of the range
\* axis and of the time axis of the geolocation grid, the first slant range
\* and the range spacing of the swath, the pulse repetition frequency, the
\* epoch of the time axis and the start time of the scene (seconds)
NoTiming == [range0 |-> 0, rangeStep |-> 0, time0 |-> 0, timeStep |-> 0,
             startingRange |-> 0, rangePixelSpacing |-> 1, prf |-> 0,
             time_epoch |-> 0, scene_start_time |-> 0]
OkTiming == [range0 |-> 100, rangeStep |-> 20, time0 |-> 5, timeStep |-> 3,
             startingRange |-> 90, rangePixelSpacing |-> 10, prf |-> 4,
             time_epoch |-> 1000, scene_start_time |-> 1004]
OtherTiming == [range0 |-> 60, rangeStep |-> 6, time0 |-> 0, timeStep |-> 1,
                startingRange |-> 60, rangePixelSpacing |-> 4, prf |-> 7,
                time_epoch |-> 50, scene_start_time |-> 50]

NoGeoloc == [group |-> FALSE, epsg |-> 0, cube |-> <<>>, nRange |-> 0,
             nAzimuth |-> 0, units |-> "none", scalars |-> FALSE,
             startTime |-> "none", timing |-> NoTiming]
OkGeoloc == [group |-> TRUE, epsg |-> 4326,
             cube |-> <<1, MaxCoord - 1, MaxCoord>>, nRange |-> MaxCoord,
             nAzimuth |-> MaxCoord - 1, units |-> "ok", scalars |-> TRUE,
             startTime |-> "ok", timing |-> OkTiming]
GeolocVariants ==
    {NoGeoloc, OkGeoloc,
     [OkGeoloc EXCEPT !.epsg = 0],
     [OkGeoloc EXCEPT !.cube = <<1, 1, MaxCoord>>],
     [OkGeoloc EXCEPT !.cube = <<MaxCoord - 1, MaxCoord>>],
     [OkGeoloc EXCEPT !.nRange = 0],
     [OkGeoloc EXCEPT !.units = "bad"],
     [OkGeoloc EXCEPT !.startTime = "bad"]}

IdentVariants ==
    {[present |-> FALSE, productType |-> "", productLevel |-> ""],
     [present |-> TRUE, productType |-> "GCOV", productLevel |-> "L2"],
     [present |-> TRUE, productType |-> "GCOV", productLevel |-> ""],
     [present |-> TRUE, productType |-> "RSLC", productLevel |-> "L1"],
     [present |-> TRUE, productType |-> "RSLC", productLevel |-> "L2"],
     [present |-> TRUE, productType |-> "RSLC", productLevel |-> ""],
     [present |-> TRUE, productType |-> "", productLevel |-> "L2"]}

GriddedFile ==
    [inst |-> "LSAR",
     ident |-> [present |-> TRUE, productType |-> "GCOV",
                productLevel |-> "L2"],
     tree |-> "GCOV", mainDims |-> <<2, 3>>, mainType |-> "Float32",
     mainChunk |-> <<>>, mainGT |-> NoAttr, coords |-> BothCoords,
     upCoords |-> NoCoords, geoloc |-> NoGeoloc, outside |-> FALSE,
     objs |-> <<>>]

WithObjects(f) == [f EXCEPT !.objs = Layout(f)]

\* files that differ in what Discovery meets
DiscoveryFiles ==
    {WithObjects([GriddedFile EXCEPT !.inst = i, !.mainDims = d,
                                     !.coords = c, !.geoloc = g,
                                     !.outside = o]) :
        i \in {"LSAR", "SSAR"},
        d \in {<<>>, <<2, 3>>, <<2, 2, 3>>, <<3>>},
        c \in {NoCoords, BothCoords},
        g \in {NoGeoloc, OkGeoloc},
        o \in BOOLEAN}
    \cup
    {WithObjects([GriddedFile EXCEPT !.mainType = "String"])}

\* files that differ in what classification and georeferencing meet
GeorefFiles ==
    {WithObjects([GriddedFile EXCEPT !.ident = id, !.mainGT = a,
                                     !.coords = c]) :
        id \in IdentVariants,
        a \in {NoAttr, OkAttr, ShortAttr, FloatAttr},
        c \in {NoCoords, BothCoords, XOnlyCoords, OnePointCoords}}
    \cup
    {WithObjects([GriddedFile EXCEPT !.ident = id, !.mainGT = a,
                                     !.tree = "RSLC", !.coords = NoCoords,
                                     !.geoloc = g]) :
        id \in IdentVariants,
        a \in {NoAttr, OkAttr},
        g \in GeolocVariants}

\* further files: other coordinate vectors, coordinate vectors one level
\* above the frequency group, other identification records, a geolocation
\* cube whose shape is not that of its axes
ExtraFiles ==
    {WithObjects([GriddedFile EXCEPT !.coords = OddCoords])}
    \cup
    {WithObjects([GriddedFile EXCEPT !.coords = c, !.upCoords = u]) :
        c \in {NoCoords, XOnlyCoords, YOnlyCoords},
        u \in {UpperCoords, UpperXOnlyCoords}}
    \cup
    {WithObjects([GriddedFile EXCEPT !.ident = id]) :
        id \in {[present |-> TRUE, productType |-> "GUNW",
                 productLevel |-> "L1"],
                [present |-> TRUE, productType |-> "GSLC",
                 productLevel |-> ""],
                [present |-> TRUE, productType |-> "", productLevel |-> ""]}}
    \cup
    {WithObjects([GriddedFile EXCEPT
                     !.ident = [present |-> TRUE, productType |-> "RSLC",
                                productLevel |-> "L1"],
                     !.tree = "RSLC", !.coords = NoCoords,
                     !.geoloc = g]) :
        g \in {[OkGeoloc EXCEPT !.cube = <<1, MaxCoord, MaxCoord - 1>>],
               [OkGeoloc EXCEPT !.scalars = FALSE],
               [OkGeoloc EXCEPT !.timing = OtherTiming],
               [OkGeoloc EXCEPT !.nAzimuth = 0]}}

Files == DiscoveryFiles \cup GeorefFiles \cup ExtraFiles

ExplicitPaths(f) ==
    {Objs(f)[i].path : i \in 1..Len(Objs(f))}
    \cup {MainPath(f), Tail(MainPath(f)), <<"/", "science", "/", "nothing">>}

OpenNames(f) ==
    {FileName, pszPrefix \o FileName, pszPrefix \o MissingFileName,
     pszPrefix \o <<"a">>, pszPrefix, pszPrefix \o FileName \o <<":">>,
     FileName \o <<":">> \o MainPath(f)}
    \cup {pszPrefix \o FileName \o <<":">> \o path : path \in ExplicitPaths(f)}

OpenOptionSets ==
    {[NoOptions EXCEPT !.inst = i] : i \in {"LSAR", "SSAR", "lsar", "XSAR"}}
    \cup {[NoOptions EXCEPT !.freq = q] : q \in {"A", "B", "C"}}
    \cup {[NoOptions EXCEPT !.pol = q] : q \in {"HH", "hh", "HHHH", "VV"}}

OpenFaults ==
    {[op |-> o, obj |-> 0] :
        o \in {"none", "H5Fopen", "ident.H5Gopen2", "H5Dopen2", "H5Dget_type",
               "H5Dget_space", "band.H5Dget_type", "gcp.H5Dread"}}

\* failures of the walk, of the calls the visitor makes on an array, and of
\* the open of an array for its description
VisitFaults(f) ==
    {[op |-> "H5Ovisit", obj |-> i] : i \in 1..Len(Objs(f))}
    \cup
    {[op |-> o, obj |-> i] :
        o \in {"visitor.H5Dopen2", "visitor.H5Dget_space", "desc.H5Dopen2"},
        i \in {k \in 1..Len(Objs(f)) : Objs(f)[k].kind = "dataset"}}

OpenRequests(f) ==
    {[name |-> n, opts |-> NoOptions, fault |-> NoFault] : n \in OpenNames(f)}
    \cup {[name |-> n, opts |-> NoOptions, fault |-> x] :
        n \in {FileName, pszPrefix \o FileName,
               pszPrefix \o FileName \o <<":">> \o MainPath(f)},
        x \in OpenFaults}
    \cup {[name |-> n, opts |-> o, fault |-> NoFault] :
        n \in {pszPrefix \o FileName,
               pszPrefix \o FileName \o <<":">> \o MainPath(f)},
        o \in OpenOptionSets}
    \cup {[name |-> pszPrefix \o FileName, opts |-> NoOptions, fault |-> x] :
        x \in VisitFaults(f)}

(***************************************************************************)
(* SpecOpen: a file of Files; datasets are opened on it, asked for their   *)
(* georeferencing and closed.                                              *)
(***************************************************************************)
InitDataset(r) ==
    /\ poDS = r.poDS
    /\ pszFilename = r.pszFilename
    /\ hDataset = r.hDataset
    /\ m_sInst = r.m_sInst
    /\ m_sProductType = r.m_sProductType
    /\ m_bIsLevel1 = r.m_bIsLevel1
    /\ m_bIsLevel2 = r.m_bIsLevel2
    /\ papszSubDatasets = r.papszSubDatasets
    /\ discoveryRuns = r.discoveryRuns
    /\ gcpList = r.gcpList
    /\ gcpSRS = r.gcpSRS
    /\ nRasterXSize = r.nRasterXSize
    /\ nRasterYSize = r.nRasterYSize
    /\ nBands = r.nBands
    /\ leadDims = r.leadDims
    /\ nBlockXSize = r.nBlockXSize
    /\ nBlockYSize = r.nBlockYSize
    /\ nDataTypeSize = r.nDataTypeSize
    /\ hH5Type = r.hH5Type
    /\ m_bGotGeoTransform = FALSE
    /\ m_adfGeoTransform = IdentityGeoTransform
    /\ gtRet = "none"
    /\ oGT = <<>>
    /\ gcpRet = -1
    /\ gtLog = <<>>
    /\ gtPrev = NoCall
    /\ lastOp = "none"

\* the getters with a cache, and those that keep their mutex while they read
Getters == {"GetGeoTransform", "GetSpatialRef", "GetMetadata(NISAR_GLOBAL)",
            "GetMetadata()", "NisarRasterBand::GetMetadata()"}
LockedGetters == Getters \ {"GetGeoTransform"}

NThreads == 2
Threads == 1..NThreads

IdleThread == [call |-> "none", pc |-> "idle", oGT |-> <<>>, fromAttr |-> FALSE,
               k |-> 0]
NothingReturned == [call |-> "none", ret |-> "none", gt |-> <<>>]

\* no thread is in a getter, every mutex is free, no cache is filled
IdleCache ==
    /\ thread = [t \in Threads |-> IdleThread]
    /\ returned = [t \in Threads |-> NothingReturned]
    /\ mutex = [g \in Getters |-> 0]
    /\ cacheFlag = [g \in LockedGetters |-> FALSE]
    /\ gtFirst = <<>>

IdleTile ==
    /\ call = [nBand |-> 0, nBlockXOff |-> 0, nBlockYOff |-> 0, fail |-> "none"]
    /\ ret = "none"
    /\ h5log = <<>>

\* no mask band is attached
IdleMask ==
    /\ m_eType = "none"
    /\ rawByte = -1
    /\ maskByte = -1

InitOpen ==
    /\ file \in Files
    /\ InitDataset([OpenFailed(0) EXCEPT !.poDS = "none"])
    /\ request = IdleRequest
    /\ IdleTile
    /\ pImage = <<>>
    /\ IdleMask
    /\ IdleCache

MaxEntries == 6     \* catalog entries tried by OpenSubdataset

NextOpen ==
    \/ \E req \in OpenRequests(file) : Open(req.name, req.opts, req.fault)
    \/ \E n \in 1..MaxEntries : OpenSubdataset(n)
    \/ GetGeoTransform
    \/ GetGCPs
    \/ GDALClose

SpecOpen == InitOpen /\ [][NextOpen]_vars

(***************************************************************************)
(* SpecTile: a raster opened on a [Y, X] or [band, Y, X] array of a file;  *)
(* its bands read tiles.                                                   *)
(***************************************************************************)
TileTypes == {t \in {"Byte", "Int16", "Float32", "CFloat32"} :
                 TypeSizeBytes(t) <= MaxTypeSize}

TileFiles ==
    {WithObjects([GriddedFile EXCEPT
                     !.mainDims = lead \o <<y, x>>,
                     !.mainChunk = [i \in 1..Len(lead) |-> 1] \o <<by, bx>>,
                     !.mainType = t]) :
        lead \in {<<>>} \cup {<<b>> : b \in 1..MaxBands},
        y \in 1..MaxRaster, x \in 1..MaxRaster,
        by \in 1..MaxBlock, bx \in 1..MaxBlock,
        t \in TileTypes}

InitTile ==
    /\ file \in TileFiles
    /\ \E fault \in {NoFault, [op |-> "band.H5Dget_type", obj |-> 0]} :
        /\ request = [name |-> pszPrefix \o FileName \o <<":">>
                                   \o MainPath(file),
                      opts |-> NoOptions, fault |-> fault,
                      entry |-> 0, entryPath |-> <<>>]
        /\ InitDataset(OpenResult(file, request.name, NoOptions, fault))
    /\ IdleTile
    /\ pImage = FreshBuffer
    /\ IdleMask
    /\ IdleCache

\* The caller is done with the block: the next call gets a new buffer
FlushBlock ==
    /\ ret # "none"
    /\ call' = [nBand |-> 0, nBlockXOff |-> 0, nBlockYOff |-> 0,
                fail |-> "none"]
    /\ ret' = "none"
    /\ h5log' = <<>>
    /\ pImage' = FreshBuffer
    /\ UNCHANGED <<bandVars, dsVars, gtVars, maskVars, cacheVars>>

NextTile ==
    \/ \E b \in 1..nBands, x \in 0..MaxBlockOff, y \in 0..MaxBlockOff,
          f \in StoreFailures :
           IReadBlock(b, x, y, f)
    \/ FlushBlock

SpecTile == InitTile /\ [][NextTile]_vars

(***************************************************************************)
(* SpecMask: a mask band of either decode rule decodes raw validity codes. *)
(* The body of NisarHDF5MaskBand::IReadBlock is not part of the sources;   *)
(* the two rules follow the description of the decoder, which agrees with  *)
(* the comments on NisarMaskType.                                          *)
(***************************************************************************)
MaxByte == 255      \* the largest raw code, the fill value of the mask

\* the range-checked rule with every non-zero code valid
DecodeRangeChecked_FillValid(raw) == IF raw >= 1 THEN 255 ELSE 0

\* range-checked rule (NisarMaskType::GCOV): 1..5 valid, anything else not
DecodeRangeChecked(raw) == IF raw >= 1 /\ raw <= 5 THEN 255 ELSE 0

\* digit-packed rule (NisarMaskType::GUNW): the fill value is invalid; any
\* other code is a pair of decimal digits, valid when neither is zero
TensDigit(raw) == (raw \div 10) % 10
OnesDigit(raw) == raw % 10
\* the digit-packed rule with one non-zero digit being enough
DecodeDigitPacked_EitherDigit(raw) ==
    IF raw = MaxByte THEN 0
    ELSE IF TensDigit(raw) # 0 \/ OnesDigit(raw) # 0 THEN 255
    ELSE 0

DecodeDigitPacked(raw) ==
    IF raw = MaxByte THEN 0
    ELSE IF TensDigit(raw) # 0 /\ OnesDigit(raw) # 0 THEN 255
    ELSE 0

MaskDecode(eType, raw) ==
    IF eType = "GCOV" THEN DecodeRangeChecked(raw) ELSE DecodeDigitPacked(raw)

InitMask ==
    /\ file = WithObjects(GriddedFile)
    /\ InitDataset([OpenFailed(0) EXCEPT !.poDS = "none"])
    /\ request = IdleRequest
    /\ IdleTile
    /\ pImage = <<>>
    /\ m_eType \in {"GCOV", "GUNW"}
    /\ rawByte = -1
    /\ maskByte = -1
    /\ IdleCache

\* one sample of a block read through the mask band
DecodeMask(raw) ==
    /\ rawByte' = raw
    /\ maskByte' = MaskDecode(m_eType, raw)
    /\ UNCHANGED <<bandVars, tileVars, dsVars, gtVars, m_eType, cacheVars>>

NextMask == \E raw \in 0..MaxByte : DecodeMask(raw)

SpecMask == InitMask /\ [][NextMask]_vars

(***************************************************************************)
(* SpecCache: threads call the cached getters of one open raster.  A step  *)
(* is what a thread does between two points where another thread can run: *)
(* taking a mutex, the work under it, the store reads, one element of a    *)
(* memcpy.                                                                 *)
(***************************************************************************)
\* a raster with a transform attribute, one with coordinate arrays only,
\* one with neither
CacheFiles ==
    {WithObjects([GriddedFile EXCEPT !.mainGT = OkAttr]),
     WithObjects(GriddedFile),
     WithObjects([GriddedFile EXCEPT !.coords = NoCoords])}

InitCache ==
    /\ file \in CacheFiles
    /\ InitDataset(OpenResult(file,
                              pszPrefix \o FileName \o <<":">> \o MainPath(file),
                              NoOptions, NoFault))
    /\ request = [IdleRequest EXCEPT
                     !.name = pszPrefix \o FileName \o <<":">> \o MainPath(file)]
    /\ IdleTile
    /\ pImage = <<>>
    /\ IdleMask
    /\ IdleCache

\* the getter's std::lock_guard without the wait for the mutex
Lock_NoWait(t, g) ==
    /\ poDS = "raster"
    /\ thread[t].pc = "idle"
    /\ mutex' = [mutex EXCEPT ![g] = t]
    /\ thread' = [thread EXCEPT ![t] = [IdleThread EXCEPT !.call = g,
                                                          !.pc = "check"]]
    /\ UNCHANGED <<bandVars, tileVars, dsVars, gtVars, maskVars, returned,
                   cacheFlag, gtFirst>>

\* a thread enters getter g and takes the mutex of its cache
\* (std::lock_guard at the head of the getter)
Lock(t, g) ==
    /\ poDS = "raster"
    /\ thread[t].pc = "idle"
    /\ mutex[g] = 0
    /\ mutex' = [mutex EXCEPT ![g] = t]
    /\ thread' = [thread EXCEPT ![t] = [IdleThread EXCEPT !.call = g,
                                                          !.pc = "check"]]
    /\ UNCHANGED <<bandVars, tileVars, dsVars, gtVars, maskVars, returned,
                   cacheFlag, gtFirst>>

\* GetGeoTransform whose first block keeps the mutex on a cache miss
GtCheck_KeepLock(t) ==
    /\ thread[t].call = "GetGeoTransform" /\ thread[t].pc = "check"
    /\ IF m_bGotGeoTransform
       THEN /\ returned' = [returned EXCEPT
                               ![t] = [call |-> "GetGeoTransform",
                                       ret |-> "CE_None",
                                       gt |-> m_adfGeoTransform]]
            /\ thread' = [thread EXCEPT ![t] = IdleThread]
            /\ mutex' = [mutex EXCEPT !["GetGeoTransform"] = 0]
       ELSE /\ thread' = [thread EXCEPT ![t].pc = "io"]
            /\ UNCHANGED <<returned, mutex>>
    /\ UNCHANGED <<bandVars, tileVars, dsVars, gtVars, maskVars, cacheFlag,
                   gtFirst>>

\* GetGeoTransform, lines 3690-3701: under the mutex, a filled cache is
\* copied out and returned; the block ends and the mutex is released
GtCheck(t) ==
    /\ thread[t].call = "GetGeoTransform" /\ thread[t].pc = "check"
    /\ IF m_bGotGeoTransform
       THEN /\ returned' = [returned EXCEPT
                               ![t] = [call |-> "GetGeoTransform",
                                       ret |-> "CE_None",
                                       gt |-> m_adfGeoTransform]]
            /\ thread' = [thread EXCEPT ![t] = IdleThread]
       ELSE /\ thread' = [thread EXCEPT ![t].pc = "io"]
            /\ UNCHANGED returned
    /\ mutex' = [mutex EXCEPT !["GetGeoTransform"] = 0]
    /\ UNCHANGED <<bandVars, tileVars, dsVars, gtVars, maskVars, cacheFlag,
                   gtFirst>>

\* GetGeoTransform, lines 3703-3870 without the two stores: the GCP test,
\* ReadGeoTransformAttribute and the coordinate arrays; a transform found is
\* kept in the thread's own array (oGT or adfCalcGT)
GtCompute(t) ==
    /\ thread[t].call = "GetGeoTransform" /\ thread[t].pc = "io"
    /\ LET attr == ReadGeoTransformAttribute(file, hDataset)
           calc == GeoTransformFromCoordinates(file, hDataset)
           found == IF Len(gcpList) > 0 \/ hDataset = <<>> THEN <<>>
                    ELSE IF attr.ok THEN attr.gt
                    ELSE IF m_bIsLevel2 /\ calc.ok THEN calc.gt
                    ELSE <<>>
       IN  IF found = <<>>
           THEN /\ returned' = [returned EXCEPT
                                   ![t] = [call |-> "GetGeoTransform",
                                           ret |-> "CE_Failure",
                                           gt |-> <<>>]]
                /\ thread' = [thread EXCEPT ![t] = IdleThread]
           ELSE /\ thread' = [thread EXCEPT ![t].pc = "lock",
                                            ![t].oGT = found,
                                            ![t].fromAttr = attr.ok]
                /\ UNCHANGED returned
    /\ UNCHANGED <<bandVars, tileVars, dsVars, gtVars, maskVars, mutex,
                   cacheFlag, gtFirst>>

\* lines 3712 and 3845: the std::lock_guard of the store
GtLockStore(t) ==
    /\ thread[t].call = "GetGeoTransform" /\ thread[t].pc = "lock"
    /\ mutex["GetGeoTransform"] = 0
    /\ mutex' = [mutex EXCEPT !["GetGeoTransform"] = t]
    /\ thread' = [thread EXCEPT ![t].pc = "flag"]
    /\ UNCHANGED <<bandVars, tileVars, dsVars, gtVars, maskVars, returned,
                   cacheFlag, gtFirst>>

\* lines 3713 and 3846: m_bGotGeoTransform = true
GtSetFlag(t) ==
    /\ thread[t].call = "GetGeoTransform" /\ thread[t].pc = "flag"
    /\ m_bGotGeoTransform' = TRUE
    /\ thread' = [thread EXCEPT ![t].pc = "memcpy", ![t].k = 1]
    /\ UNCHANGED <<bandVars, tileVars, file, poDS, request, pszFilename,
                   hDataset, m_sInst, m_sProductType, m_bIsLevel1,
                   m_bIsLevel2, papszSubDatasets, discoveryRuns, gcpList,
                   gcpSRS, m_adfGeoTransform, gtRet, oGT, gcpRet, gtVars,
                   maskVars, returned, mutex, cacheFlag, gtFirst>>

\* lines 3714 and 3847: memcpy into m_adfGeoTransform; the copy is not one
\* atomic write: step 1 copies the first three elements, step 2 the rest
GtMemcpy(t) ==
    /\ thread[t].call = "GetGeoTransform" /\ thread[t].pc = "memcpy"
    /\ LET n == Len(IdentityGeoTransform) \div 2
           lo == (thread[t].k - 1) * n + 1
       IN  m_adfGeoTransform' =
               [i \in 1..Len(IdentityGeoTransform) |->
                   IF i \in lo..(lo + n - 1) THEN thread[t].oGT[i]
                   ELSE m_adfGeoTransform[i]]
    /\ thread' = IF thread[t].k = 2
                 THEN [thread EXCEPT ![t].pc = "return"]
                 ELSE [thread EXCEPT ![t].k = thread[t].k + 1]
    /\ UNCHANGED <<bandVars, tileVars, file, poDS, request, pszFilename,
                   hDataset, m_sInst, m_sProductType, m_bIsLevel1,
                   m_bIsLevel2, papszSubDatasets, discoveryRuns, gcpList,
                   gcpSRS, m_bGotGeoTransform, gtRet, oGT, gcpRet, gtVars,
                   maskVars, returned, mutex, cacheFlag, gtFirst>>

\* lines 3715-3720 and 3848-3862: the transform is handed out (the
\* attribute branch hands out the thread's own oGT, the coordinate branch
\* copies the cache back into oGT under the mutex), the block ends, return
\* CE_None
GtReturn(t) ==
    /\ thread[t].call = "GetGeoTransform" /\ thread[t].pc = "return"
    /\ returned' = [returned EXCEPT
                       ![t] = [call |-> "GetGeoTransform", ret |-> "CE_None",
                               gt |-> IF thread[t].fromAttr
                                      THEN thread[t].oGT
                                      ELSE m_adfGeoTransform]]
    /\ mutex' = [mutex EXCEPT !["GetGeoTransform"] = 0]
    /\ gtFirst' = IF gtFirst = <<>> THEN m_adfGeoTransform ELSE gtFirst
    /\ thread' = [thread EXCEPT ![t] = IdleThread]
    /\ UNCHANGED <<bandVars, tileVars, dsVars, gtVars, maskVars, cacheFlag>>

\* GetSpatialRef 3884-3894, GetMetadata 1697-1706 and 1742-1747, the band's
\* GetMetadata 272-278: under the mutex, a cache marked as filled is
\* returned; otherwise it is marked and the getter goes on to read the
\* store, the lock_guard still in scope
LockedCheck(t) ==
    /\ thread[t].call \in LockedGetters /\ thread[t].pc = "check"
    /\ IF cacheFlag[thread[t].call]
       THEN /\ mutex' = [mutex EXCEPT ![thread[t].call] = 0]
            /\ thread' = [thread EXCEPT ![t] = IdleThread]
            /\ UNCHANGED cacheFlag
       ELSE /\ cacheFlag' = [cacheFlag EXCEPT ![thread[t].call] = TRUE]
            /\ thread' = [thread EXCEPT ![t].pc = "io"]
            /\ UNCHANGED mutex
    /\ UNCHANGED <<bandVars, tileVars, dsVars, gtVars, maskVars, returned,
                   gtFirst>>

\* GetSpatialRef 3896-4227, GetMetadata 1707-1731 and 1748 on, the band's
\* GetMetadata 279-308: the store is read (H5Aiterate2, H5Dread ...), the
\* value is stored in the cache, the lock_guard goes out of scope
LockedCompute(t) ==
    /\ thread[t].call \in LockedGetters /\ thread[t].pc = "io"
    /\ mutex' = [mutex EXCEPT ![thread[t].call] = 0]
    /\ thread' = [thread EXCEPT ![t] = IdleThread]
    /\ UNCHANGED <<bandVars, tileVars, dsVars, gtVars, maskVars, returned,
                   cacheFlag, gtFirst>>

NextCache ==
    \E t \in Threads :
        \/ \E g \in Getters : Lock(t, g)
        \/ GtCheck(t)
        \/ GtCompute(t)
        \/ GtLockStore(t)
        \/ GtSetFlag(t)
        \/ GtMemcpy(t)
        \/ GtReturn(t)
        \/ LockedCheck(t)
        \/ LockedCompute(t)

SpecCache == InitCache /\ [][NextCache]_vars

(***************************************************************************)
(* Properties of Open, Discovery and georeferencing (checked under         *)
(* SpecOpen).                                                              *)
(***************************************************************************)
Classified == m_bIsLevel1 \/ m_bIsLevel2
TransformOk == gtRet = "CE_None"
GCPsOk == gcpRet > 0
BothAsked == gtRet # "none" /\ gcpRet # -1

TargetAttr == ObjAt(file, hDataset).gt
WellFormedAttr(a) ==
    a.present /\ a.type = "NATIVE_DOUBLE" /\ Len(a.values) = 6

UnderInstrumentRoot(path) ==
    \/ StartsWith(path, <<"/", "science", "/", "LSAR", "/">>)
    \/ StartsWith(path, <<"/", "science", "/", "SSAR", "/">>)

Qualifies(o) ==
    o.kind = "dataset" /\ UnderInstrumentRoot(o.path) /\ Len(o.dims) >= 2

InCatalog(path) ==
    \E n \in 1..Len(papszSubDatasets) :
        papszSubDatasets[n].name = SubdatasetName(pszFilename, path)

\* the walk of the last Open stopped before object i, or the visitor's open
\* or dataspace call on object i failed
InspectionFailed(i) ==
    \/ request.fault.op = "H5Ovisit" /\ request.fault.obj <= i
    \/ /\ request.fault.op \in {"visitor.H5Dopen2", "visitor.H5Dget_space"}
       /\ request.fault.obj = i

\* C7 as stated: an object is in the catalog if and only if it is an array
\* under science/LSAR/ or science/SSAR/ of rank at least 2
C7_Original_CatalogIffQualifies ==
    poDS = "container"
        => \A i \in 1..Len(Objs(file)) :
               InCatalog(Objs(file)[i].path) <=> Qualifies(Objs(file)[i])

\* C7: an object is in the catalog if and only if it is an array under
\* science/LSAR/ or science/SSAR/ of rank at least 2 that the walk reached
\* and whose open and dataspace inspection succeeded; its entry carries its
\* shape unless the array could not be opened for its description
C7_CatalogIffQualifiesAndInspected ==
    poDS = "container"
        => /\ \A i \in 1..Len(Objs(file)) :
                  InCatalog(Objs(file)[i].path)
                      <=> (Qualifies(Objs(file)[i]) /\ ~InspectionFailed(i))
           /\ \A n \in 1..Len(papszSubDatasets) :
                  \E i \in 1..Len(Objs(file)) :
                      /\ papszSubDatasets[n].name
                             = SubdatasetName(pszFilename, Objs(file)[i].path)
                      /\ \/ papszSubDatasets[n].desc.shape
                                = Objs(file)[i].dims
                         \/ /\ request.fault.op = "desc.H5Dopen2"
                            /\ request.fault.obj = i

\* a catalog built while the file also holds a 1-D array under the root, an
\* array of rank 3 outside the root and a qualifying array whose open failed
C7_Witness ==
    /\ poDS = "container"
    /\ request.fault.op = "visitor.H5Dopen2"
    /\ Qualifies(Objs(file)[request.fault.obj])
    /\ ~InCatalog(Objs(file)[request.fault.obj].path)
    /\ ~InCatalog(OutsidePath) /\ H5Dopen2Ok(file, OutsidePath)
    /\ \E i \in 1..Len(Objs(file)) :
           /\ Objs(file)[i].kind = "dataset"
           /\ UnderInstrumentRoot(Objs(file)[i].path)
           /\ Len(Objs(file)[i].dims) = 1

\* C8: the name of every catalog entry, passed back to Open, opens the same
\* file and exactly the entry's array, and returns a raster
C8_CatalogEntryOpens ==
    request.entry # 0
        => /\ poDS = "raster"
           /\ pszFilename = FileName
           /\ hDataset = request.entryPath

\* the file of the last Open was opened and no path was chosen by the name
\* or by the options, so that the walk ran to its end
WalkCompleted ==
    /\ discoveryRuns = 1
    /\ request.fault.op # "H5Ovisit"

\* C9: when the walk completes and no array qualified, Open returns an empty
\* container
C9_EmptyDiscoveryReturnsContainer ==
    (WalkCompleted /\ \A i \in 1..Len(Objs(file)) : ~Qualifies(Objs(file)[i]))
        => (poDS = "container" /\ papszSubDatasets = <<>>)

\* the part of the name of the last Open that follows the driver prefix
RequestIdentifier ==
    IF StartsWith(request.name, pszPrefix)
    THEN SubSeq(request.name, Len(pszPrefix) + 1, Len(request.name))
    ELSE request.name

\* the last Open named an array path: a ":" follows the file name
ExplicitPathGiven == LastIndexOf(RequestIdentifier, ":") # 0

ExplicitPath ==
    SubSeq(RequestIdentifier, LastIndexOf(RequestIdentifier, ":") + 1,
           Len(RequestIdentifier))

IsCatalogOnly ==
    /\ poDS = "container"
    /\ hDataset = <<>> /\ nBands = 0
    /\ nRasterXSize = 0 /\ nRasterYSize = 0

\* C10 as stated: an Open with an explicit array path opens exactly that
\* array as a single raster and never runs Discovery; an Open without one
\* always runs Discovery and returns a catalog that holds no raster
C10_Original_PathOrDiscovery ==
    poDS \in {"container", "raster"}
        => IF ExplicitPathGiven
           THEN /\ poDS = "raster" /\ hDataset = AbsPath(ExplicitPath)
                /\ discoveryRuns = 0
           ELSE /\ IsCatalogOnly
                /\ discoveryRuns = 1

\* the array path the open options of the last Open name
RequestOptionPath ==
    <<"/", "science", "/",
      ToUpper(IF request.opts.inst = "" THEN "LSAR" ELSE request.opts.inst),
      "/", m_sProductType, "/", IF m_bIsLevel1 THEN "swaths" ELSE "grids",
      "/", "frequency",
      ToUpper(IF request.opts.freq = "" THEN "A" ELSE request.opts.freq),
      "/",
      ToUpper(IF request.opts.pol # "" THEN request.opts.pol
              ELSE IF m_sProductType = "GCOV" THEN "HHHH" ELSE "HH")>>

\* the last Open got as far as choosing what to open
FileOpened ==
    /\ RequestIdentifier = FileName
    /\ request.fault.op # "H5Fopen"
    /\ \/ StartsWith(request.name, pszPrefix)
       \/ H5LexistsOk(file, IdentPath(file))

\* C10: an Open with an explicit array path opens exactly that array as a
\* single raster and never runs Discovery; with no explicit path but any of
\* the INST, FREQ and POL options it opens the array the options name,
\* again without Discovery; with neither it runs Discovery and never opens a
\* raster: a dataset it returns is a catalog with no array handle, no bands
\* and size 0 x 0
C10_PathOptionsOrDiscovery ==
    poDS # "none"
        => IF ExplicitPathGiven
           THEN /\ discoveryRuns = 0 /\ poDS # "container"
                /\ poDS = "raster"
                       => /\ hDataset = AbsPath(ExplicitPath)
                          /\ papszSubDatasets = <<>>
           ELSE IF HasOptions(request.opts)
           THEN /\ discoveryRuns = 0 /\ poDS # "container"
                /\ poDS = "raster"
                       => /\ hDataset = RequestOptionPath
                          /\ papszSubDatasets = <<>>
           ELSE /\ poDS # "raster"
                /\ poDS = "container" => IsCatalogOnly
                /\ FileOpened => discoveryRuns = 1

\* a raster opened from the open options alone, without a walk
C10_Witness ==
    /\ poDS = "raster"
    /\ ~ExplicitPathGiven /\ HasOptions(request.opts)
    /\ discoveryRuns = 0 /\ nBands = 1
    /\ hDataset = MainPath(file)

(***************************************************************************)
(* Degraded opens.                                                         *)
(***************************************************************************)
\* the file name part of the name of the last Open
RequestFileName ==
    SubSeq(RequestIdentifier, 1, LastIndexOf(RequestIdentifier, ":") - 1)

\* an array of the file that a raster can be built on: rank >= 2, a sample
\* type GDAL knows, no empty dimension
UsableArray(path) ==
    /\ H5LexistsOk(file, path)
    /\ H5Dopen2Ok(file, path)
    /\ TypeSizeBytes(ObjAt(file, path).dtype) # 0
    /\ Len(ObjAt(file, path).dims) >= 2
    /\ \A d \in 1..Len(ObjAt(file, path).dims) : ObjAt(file, path).dims[d] > 0

\* the last Open met no failure but one of classification or of GCP
\* generation
OnlyGeorefCanFail ==
    request.fault.op \in {"none", "ident.H5Gopen2", "gcp.H5Dread"}

\* the last Open named the file and a usable array of it by its path
TargetByPath ==
    /\ StartsWith(request.name, pszPrefix)
    /\ ExplicitPathGiven
    /\ RequestFileName = FileName
    /\ UsableArray(ExplicitPath)

\* the last Open named the file and, by the POL option alone, the
\* polarization of its usable main array on an LSAR file
TargetByOptions ==
    /\ RequestIdentifier = FileName
    /\ StartsWith(request.name, pszPrefix)
    /\ request.opts.pol # "" /\ EQUAL(request.opts.pol, PolOf(file.tree))
    /\ file.inst = "LSAR"
    /\ UsableArray(MainPath(file))

\* the last Open ran the GCP generation of a Swath product and it failed
GCPGenerationFailed ==
    /\ m_bIsLevel1 /\ ~m_bIsLevel2
    /\ request.fault.op = "gcp.H5Dread"

GeorefUnavailable ==
    /\ gcpList = <<>>
    /\ gcpRet \in {-1, 0}
    /\ ~WellFormedAttr(TargetAttr) => gtRet \in {"none", "CE_Failure"}

CalledTwiceInARow == lastOp = "GetGeoTransform" /\ gtPrev.ret # "none"

\* C12: the second of two GetGeoTransform calls made in a row on a raster
\* returns the outcome and the six values of the first and makes no store
\* call, whether the first found a transform or not
C12_SecondCallFromCache ==
    (poDS = "raster" /\ CalledTwiceInARow)
        => /\ gtRet = gtPrev.ret
           /\ oGT = gtPrev.gt
           /\ gtLog = <<>>

(***************************************************************************)
(* The GCP list of a Swath raster.                                         *)
(***************************************************************************)
GridPath ==
    <<"/", "science", "/", m_sInst, "/", m_sProductType, "/", "metadata",
      "/", "geolocationGrid">>
\* A: samples of the azimuth axis, R: samples of the range axis
AzimuthSamples == ObjAt(file, GridPath \o <<"/", "zeroDopplerTime">>).dims[1]
RangeSamples == ObjAt(file, GridPath \o <<"/", "slantRange">>).dims[1]
\* the slice of the cube has one row per azimuth sample and one column per
\* range sample
CubeIsAzimuthByRange ==
    \A name \in {"coordinateX", "coordinateY"} :
        /\ ObjAt(file, GridPath \o <<"/", name>>).dims[2] = AzimuthSamples
        /\ ObjAt(file, GridPath \o <<"/", name>>).dims[3] = RangeSamples

FoundX == CoordValues(file, CoordsRoot(file, hDataset)
                                \o <<"/", "xCoordinates">>)
FoundY == CoordValues(file, CoordsRoot(file, hDataset)
                                \o <<"/", "yCoordinates">>)

\* N >= 2 pixel centres with a constant step
EvenlySpaced(v) ==
    /\ Len(v) >= 2
    /\ \A k \in 1..Len(v) : v[k] = v[1] + (k - 1) * (v[2] - v[1])

\* the transform was derived from the coordinate vectors
DerivedFromCoordinates ==
    /\ poDS = "raster" /\ gtRet = "CE_None"
    /\ ~WellFormedAttr(TargetAttr)

Decoded == rawByte # -1

\* C15: under the range-checked rule a raw code in 1..5 decodes to 255, the
\* codes 0 and 255 decode to 0, every decoded byte is 0 or 255, and the
\* decoded byte is a function of the raw code, whatever was decoded before
C15_RangeCheckedDecode ==
    (m_eType = "GCOV" /\ Decoded)
        => /\ maskByte \in {0, 255}
           /\ rawByte \in 1..5 => maskByte = 255
           /\ rawByte \in {0, 255} => maskByte = 0
           /\ maskByte = DecodeRangeChecked(rawByte)

\* raw code 3 decoded to valid under the range-checked rule
C15_Witness ==
    /\ m_eType = "GCOV"
    /\ rawByte = 3 /\ maskByte = 255

\* C16: under the digit-packed rule the raw code 255 decodes to 0; any other
\* code, written in base 10 with tens digit t and ones digit o, decodes to
\* 255 if t and o are both non-zero and to 0 otherwise
C16_DigitPackedDecode ==
    (m_eType = "GUNW" /\ Decoded)
        => /\ rawByte = 255 => maskByte = 0
           /\ \A h \in 0..2, t \in 0..9, o \in 0..9 :
                (rawByte # 255 /\ rawByte = 100 * h + 10 * t + o)
                    => maskByte = IF t # 0 /\ o # 0 THEN 255 ELSE 0

\* raw code 23 (digits 2 and 3) decoded to valid under the digit-packed rule
C16_Witness ==
    /\ m_eType = "GUNW"
    /\ rawByte = 23 /\ maskByte = 255

(***************************************************************************)
(* The product identity.                                                   *)
(***************************************************************************)
\* what ReadIdentificationMetadata computed during the last Open
ComputedIdentity == ReadIdentificationMetadata(file, request.fault)

\* C17: the instrument, the product type and the level of an open dataset
\* are those ReadIdentificationMetadata computed from the file; no later
\* step of Open and no later operation changes any of them
C17_IdentityFixed ==
    poDS \in {"raster", "container"}
        => /\ m_sInst = ComputedIdentity.m_sInst
           /\ m_sProductType = ComputedIdentity.m_sProductType
           /\ m_bIsLevel1 = ComputedIdentity.m_bIsLevel1
           /\ m_bIsLevel2 = ComputedIdentity.m_bIsLevel2

\* the identification group of the file was read during the last Open and
\* holds a product type
ProductTypeReadable ==
    /\ poDS \in {"raster", "container"}
    /\ file.ident.present
    /\ request.fault.op # "ident.H5Gopen2"
    /\ file.ident.productType # ""

GriddedTags == {"GSLC", "GCOV", "GUNW"}
SwathTags == {"RSLC"}

Gridded == m_bIsLevel2 /\ ~m_bIsLevel1
Swath == m_bIsLevel1 /\ ~m_bIsLevel2

\* C18 as stated: with a readable product type every gridded tag gives
\* level Gridded and every swath tag gives level Swath
C18_Original_LevelFromTypeTag ==
    ProductTypeReadable
        => /\ file.ident.productType \in GriddedTags => Gridded
           /\ file.ident.productType \in SwathTags => Swath

\* C18: with a readable product type every gridded tag (GSLC, GCOV, GUNW)
\* gives level Gridded, whatever the productLevel field holds; for any
\* other tag the level is that of the productLevel field: Swath for L1,
\* Gridded for L2, Unknown otherwise
C18_LevelFromTagOrLevelField ==
    ProductTypeReadable
        => /\ m_sProductType = file.ident.productType
           /\ file.ident.productType \in GriddedTags => Gridded
           /\ file.ident.productType \notin GriddedTags
                  => /\ file.ident.productLevel = "L1" => Swath
                     /\ file.ident.productLevel = "L2" => Gridded
                     /\ file.ident.productLevel \notin {"L1", "L2"}
                            => ~Classified

\* a GUNW product whose productLevel field says L1, classified Gridded
C18_Witness ==
    /\ ProductTypeReadable
    /\ file.ident.productType = "GUNW" /\ file.ident.productLevel = "L1"
    /\ Gridded

\* the identification record of the file gave no product type during the
\* last Open: the record or its productType field is absent or unreadable
ProductTypeUnreadable ==
    /\ poDS \in {"raster", "container"}
    /\ \/ ~file.ident.present
       \/ request.fault.op = "ident.H5Gopen2"
       \/ file.ident.productType = ""

\* C19: when the product type cannot be read, type and level are taken from
\* the well-known product group found under the instrument root (the file
\* holds one such group, named after its product type); the level is
\* Unknown only if there is no such group
C19_FallbackByGroupProbing ==
    ProductTypeUnreadable
        => IF H5LexistsOk(file, ProductRoot(file))
           THEN /\ m_sProductType = file.tree
                /\ file.tree \in GriddedTags => Gridded
                /\ file.tree \in SwathTags => Swath
           ELSE ~Classified

(***************************************************************************)
(* The walk up to the coordinate root.                                     *)
(***************************************************************************)
HoldsBoth(group) ==
    /\ H5LexistsOk(file, group \o <<"/", "xCoordinates">>)
    /\ H5LexistsOk(file, group \o <<"/", "yCoordinates">>)

\* the nearest ancestor of path that holds both coordinate arrays, <<>> if
\* no ancestor does
RECURSIVE NearestWithBoth(_)
NearestWithBoth(path) ==
    LET nLastSlash == LastIndexOf(path, "/")
        parent == SubSeq(path, 1, nLastSlash - 1)
    IN  IF Len(path) <= 1 \/ nLastSlash <= 1 THEN <<>>
        ELSE IF HoldsBoth(parent) THEN parent
        ELSE NearestWithBoth(parent)

\* the transform of two vectors of pixel centres, in halves
TransformOfCentres(x, y) ==
    LET resX == ((x[Len(x)] - x[1]) * Half) \div (Len(x) - 1)
        resY == ((y[Len(y)] - y[1]) * Half) \div (Len(y) - 1)
    IN  <<x[1] * Half - resX \div 2, resX, 0,
          y[1] * Half - resY \div 2, 0, resY>>

\* GetGeoTransform was called on a Gridded raster of a grid layer that has
\* no GCPs and no well-formed GeoTransform attribute, so that the
\* coordinate stage decided the outcome
CoordinateStageDecided ==
    /\ poDS = "raster" /\ Gridded
    /\ gtRet # "none"
    /\ gcpList = <<>>
    /\ ~WellFormedAttr(TargetAttr)
    /\ Contains(hDataset, <<"/", "grids", "/">>)

\* C20: the walk up from the parent of the open array stops at the nearest
\* ancestor that holds both xCoordinates and yCoordinates, passing by an
\* ancestor that holds only one of them: the transform is that of the
\* vectors of that ancestor, and the derivation fails for want of a root
\* only if no ancestor holds both
C20_WalkStopsWhereBothExist ==
    CoordinateStageDecided
        => LET root == NearestWithBoth(hDataset)
               x == CoordValues(file, root \o <<"/", "xCoordinates">>)
               y == CoordValues(file, root \o <<"/", "yCoordinates">>)
           IN  IF root = <<>>
               THEN gtRet = "CE_Failure"
               ELSE (Len(x) >= 2 /\ Len(y) >= 2)
                       => /\ gtRet = "CE_None"
                          /\ oGT = TransformOfCentres(x, y)

(***************************************************************************)
(* The GeoTransform attribute of the open array.                           *)
(***************************************************************************)
\* GetGeoTransform was called on a raster
AskedOnRaster == poDS = "raster" /\ gtRet # "none"

\* store calls of the coordinate stage
CoordinateCalls == {"H5Lexists", "H5Dopen2", "H5Dget_space", "H5Dread"}
NoCoordinateRead == \A k \in 1..Len(gtLog) : gtLog[k] \notin CoordinateCalls

\* the attribute is there but is not six doubles
MalformedAttr(a) == a.present /\ ~WellFormedAttr(a)

GCPGenerationRan == poDS = "raster" /\ Swath

\* every input of the GCP generation is there and usable: the geolocation
\* group under the path built from instrument and product type, the EPSG
\* code, a cube of rank 3 that holds a value for every pair of samples, the
\* two axes, time units and start time that parse, the scalars, and no
\* failing read
GCPInputsUsable ==
    /\ H5Gopen2Ok(file, GridPath)
    /\ file.geoloc.epsg > 0
    /\ file.geoloc.nRange > 0 /\ file.geoloc.nAzimuth > 0
    /\ Len(file.geoloc.cube) = 3
    /\ file.geoloc.cube[1] > 0
    /\ file.geoloc.cube[2] * file.geoloc.cube[3]
           >= file.geoloc.nAzimuth * file.geoloc.nRange
    /\ file.geoloc.units = "ok"
    /\ file.geoloc.scalars
    /\ file.geoloc.startTime = "ok"
    /\ request.fault.op # "gcp.H5Dread"

\* C23: the GCP generation run by Open either attaches the whole list, one
\* GCP per pair of azimuth and range sample, together with its coordinate
\* reference, or attaches nothing: with any input missing or unusable the
\* raster has no GCP and no GCP coordinate reference, and GetGCPs returns
\* none
C23_GCPsAllOrNothing ==
    GCPGenerationRan
        => IF GCPInputsUsable
           THEN /\ Len(gcpList) = file.geoloc.nAzimuth * file.geoloc.nRange
                /\ gcpSRS = file.geoloc.epsg
           ELSE /\ gcpList = <<>>
                /\ gcpSRS = 0
                /\ gcpRet \in {-1, 0}

\* a Swath raster whose cube holds fewer values than there are pairs of
\* samples: nothing attached, GetGCPs returned none
C23_Witness ==
    /\ GCPGenerationRan
    /\ file.geoloc.cube = <<1, 1, MaxCoord>>
    /\ file.geoloc.nAzimuth > 1
    /\ gcpList = <<>> /\ gcpSRS = 0
    /\ gcpRet = 0

(***************************************************************************)
(* The values of a GCP.  Pixel and line are counted in halves of a pixel.  *)
(***************************************************************************)
\* C24: in the GCP list of a raster the GCP of azimuth index i and range
\* index j takes mapX and mapY from the slice of the coordinate cube at
\* flattened index i*R + j, has pixel (slantRange[j] - startingRange) /
\* rangeSpacing + 0.5 and line (epoch + zeroDopplerTime[i] -
\* sceneStartTime) * PRF + 0.5
C24_GCPValues ==
    (poDS = "raster" /\ gcpList # <<>>)
        => \A i \in 0..(AzimuthSamples - 1), j \in 0..(RangeSamples - 1) :
            LET gcp == gcpList[i * RangeSamples + j + 1]
                t == file.geoloc.timing
                cols == file.geoloc.cube[3]
                slantRange == t.range0 + j * t.rangeStep
                zeroDopplerTime == t.time0 + i * t.timeStep
            IN  /\ gcp.dfGCPX.row * cols + gcp.dfGCPX.col
                       = i * RangeSamples + j
                /\ gcp.dfGCPY.row * cols + gcp.dfGCPY.col
                       = i * RangeSamples + j
                /\ (gcp.dfGCPPixel - 1) * t.rangePixelSpacing
                       = (slantRange - t.startingRange) * Half
                /\ gcp.dfGCPLine - 1
                       = (t.time_epoch + zeroDopplerTime - t.scene_start_time)
                             * t.prf * Half

\* a list whose second GCP lies at pixel 3.5 and whose last GCP lies on a
\* later line than its first
C24_Witness ==
    /\ poDS = "raster" /\ gcpList # <<>>
    /\ file.geoloc.timing = OkTiming
    /\ gcpList[2].dfGCPPixel = 3 * Half + 1
    /\ gcpList[1].dfGCPLine = 4 * Half + 1
    /\ gcpList[Len(gcpList)].dfGCPLine > gcpList[1].dfGCPLine
    /\ gcpRet = Len(gcpList)

(***************************************************************************)
(* Discovery: one array that cannot be opened or inspected.                *)
(***************************************************************************)
\* the open or the dataspace call of the visitor failed on a qualifying array
VisitorFailedOnCandidate ==
    /\ request.fault.op \in {"visitor.H5Dopen2", "visitor.H5Dget_space"}
    /\ Qualifies(Objs(file)[request.fault.obj])

\* the open of a qualifying array for its description failed
DescriptionFailedOnCandidate ==
    /\ request.fault.op = "desc.H5Dopen2"
    /\ Qualifies(Objs(file)[request.fault.obj])

\* every qualifying array but the one the fault hit is in the catalog
OthersInCatalog ==
    \A i \in 1..Len(Objs(file)) :
        (Qualifies(Objs(file)[i]) /\ i # request.fault.obj)
            => InCatalog(Objs(file)[i].path)

\* C25 as stated: when Discovery fails to open or inspect one candidate
\* array, the walk continues, every other qualifying array is in the
\* catalog and the failed candidate is not
C25_Original_FailedCandidateSkipped ==
    (discoveryRuns = 1
     /\ (VisitorFailedOnCandidate \/ DescriptionFailedOnCandidate))
        => /\ OthersInCatalog
           /\ ~InCatalog(Objs(file)[request.fault.obj].path)

\* C25: when Discovery fails to open or inspect one candidate array, the
\* walk continues and every other qualifying array is in the catalog (with
\* another qualifying array the result is a container); a
\* candidate that failed in the visitor is not in the catalog, a candidate
\* that failed when opened for its description stays in the catalog with a
\* description that reports the error
C25_FailedCandidateSkippedInWalk ==
    (discoveryRuns = 1
     /\ (VisitorFailedOnCandidate \/ DescriptionFailedOnCandidate))
        => /\ OthersInCatalog
           /\ VisitorFailedOnCandidate
                  => ~InCatalog(Objs(file)[request.fault.obj].path)
           /\ (\E i \in 1..Len(Objs(file)) :
                  Qualifies(Objs(file)[i]) /\ i # request.fault.obj)
                  => poDS = "container"
           /\ DescriptionFailedOnCandidate
                  => \E n \in 1..Len(papszSubDatasets) :
                         /\ papszSubDatasets[n].name
                                = SubdatasetName(pszFilename,
                                      Objs(file)[request.fault.obj].path)
                         /\ papszSubDatasets[n].desc.type = "Error opening"

\* the visitor could not open the first of several qualifying arrays, and an
\* array visited after it is in the catalog
C25_Witness ==
    /\ poDS = "container"
    /\ request.fault.op = "visitor.H5Dopen2"
    /\ Qualifies(Objs(file)[request.fault.obj])
    /\ ~InCatalog(Objs(file)[request.fault.obj].path)
    /\ \E i \in 1..Len(Objs(file)) :
           /\ i > request.fault.obj
           /\ Qualifies(Objs(file)[i])
           /\ InCatalog(Objs(file)[i].path)

(***************************************************************************)
(* The mutexes of the caches (checked under SpecCache).                    *)
(***************************************************************************)
\* thread t is reading the store to compute the value of its getter
ReadingStore(t) == thread[t].pc = "io"

HoldsMutex(t) == thread[t].call \in Getters /\ mutex[thread[t].call] = t

\* C26 as stated: no thread holds the mutex of a cache while it reads the
\* store to compute the value of that cache
C26_Original_NoMutexDuringIO ==
    \A t \in Threads : ReadingStore(t) => ~HoldsMutex(t)

\* C26: GetGeoTransform holds the mutex of the transform cache only for the
\* check of the cache and for the store into it, never while it reads the
\* store; GetSpatialRef, GetMetadata (NISAR_GLOBAL and default domain) and
\* the band's GetMetadata hold their mutex from the check of the cache to
\* their return, the store reads included
C26_OnlyTransformReadsUnlocked ==
    \A t \in Threads :
        /\ (thread[t].call = "GetGeoTransform")
               => (HoldsMutex(t) <=> thread[t].pc \in {"check", "flag",
                                                       "memcpy", "return"})
        /\ (thread[t].call = "GetGeoTransform" /\ ReadingStore(t))
               => ~HoldsMutex(t)
        /\ (thread[t].call \in LockedGetters) => HoldsMutex(t)

\* one thread reads the store for GetGeoTransform without the mutex while
\* another reads it for GetSpatialRef with the mutex
C26_Witness ==
    \E t, u \in Threads :
        /\ thread[t].call = "GetGeoTransform" /\ ReadingStore(t)
        /\ mutex["GetGeoTransform"] = 0
        /\ thread[u].call = "GetSpatialRef" /\ ReadingStore(u)
        /\ mutex["GetSpatialRef"] = u

\* thread t's last finished call was a GetGeoTransform that succeeded
GtSucceeded(t) ==
    returned[t].call = "GetGeoTransform" /\ returned[t].ret = "CE_None"

HandlesOfGCPGeneration ==
    GCPHandles(file, m_sInst, m_sProductType, request.fault)

\* C28, for the GCP generation of Open: every store handle it opened is
\* closed exactly once before it returns, whether it succeeds or fails, and
\* it closes no handle that it did not open
C28_GCPHandlesClosedOnce ==
    GCPGenerationRan
        => LET h == HandlesOfGCPGeneration
           IN  /\ \A i \in 1..Len(h.opened) :
                      Cardinality({k \in 1..Len(h.closed) :
                                      h.closed[k] = h.opened[i]}) = 1
               /\ \A k \in 1..Len(h.closed) :
                      \E i \in 1..Len(h.opened) : h.opened[i] = h.closed[k]
               /\ ~h.uninitRead

(***************************************************************************)
(* Extents of a tile read (checked under SpecTile).                        *)
(***************************************************************************)
\* C29: for every tile request whose origin lies inside the raster the
\* width and the height read are at least 1 and at most the tile width and
\* height, offset plus extent stays inside the raster; every hyperslab the
\* call selects lies inside the stored array, and the memory space of the
\* read, which has the extents read, holds no more bytes than the tile
\* buffer
C29_TileExtentsInBounds ==
    (Called /\ TileOriginInside)
        => /\ 1 <= TileW /\ TileW <= nBlockXSize
           /\ 1 <= TileH /\ TileH <= nBlockYSize
           /\ start_offset_x(call.nBlockXOff) + TileW <= nRasterXSize
           /\ start_offset_y(call.nBlockYOff) + TileH <= nRasterYSize
           /\ \A i \in 1..Len(h5log) :
                  /\ h5log[i].op = "H5Sselect_hyperslab"
                         => /\ Len(h5log[i].start) = FileRank
                            /\ \A d \in 1..FileRank :
                                   /\ h5log[i].start[d] >= 0
                                   /\ h5log[i].count[d] >= 1
                                   /\ h5log[i].start[d] + h5log[i].count[d]
                                          <= FileDims[d]
                            /\ h5log[i].count[FileRank] = TileW
                            /\ h5log[i].count[FileRank - 1] = TileH
                  /\ h5log[i].op = "H5Screate_simple"
                         => /\ h5log[i].dims = <<TileH, TileW>>
                            /\ h5log[i].dims[1] * h5log[i].dims[2]
                                   * nDataTypeSize
                                   <= Cardinality(DOMAIN pImage)
           /\ DOMAIN pImage = 0..(nFullBlockBytes - 1)

\* a read of a tile in the last tile row of a raster narrower than a tile:
\* the width is clamped to the raster edge and the read succeeded
C29_Witness ==
    /\ Called /\ TileOriginInside
    /\ call.nBlockYOff > 0
    /\ TileW < nBlockXSize
    /\ start_offset_x(call.nBlockXOff) + TileW = nRasterXSize
    /\ ret = "CE_None"
    /\ Issued("H5Dread")

(***************************************************************************)
(* The level flags and the two georeferencing methods.                     *)
(***************************************************************************)
\* C30: whatever productType and productLevel hold, m_bIsLevel1 and
\* m_bIsLevel2 are never both set, and on one raster at most one of GCP
\* generation and the coordinate stage of GetGeoTransform is attempted: a
\* raster on which GCP generation ran or which holds GCPs makes no
\* coordinate read, and a raster that made one is Gridded and has no GCPs
C30_LevelFlagsExclusive ==
    /\ ~(m_bIsLevel1 /\ m_bIsLevel2)
    /\ poDS = "raster"
           => /\ (GCPGenerationRan \/ gcpList # <<>>) => NoCoordinateRead
              /\ ~NoCoordinateRead => (Gridded /\ gcpList = <<>>)
              /\ gcpList # <<>> => Swath

\* a file that names a grid type and level L1: the raster is Gridded, has
\* no GCPs and its transform was derived from the coordinate arrays
C30_Witness ==
    /\ poDS = "raster"
    /\ file.ident.productLevel = "L1"
    /\ file.ident.productType \in GriddedTags
    /\ Gridded
    /\ gcpList = <<>>
    /\ TransformOk /\ ~NoCoordinateRead

====
